---- MODULE Spec2Model ----
(***************************************************************************)
(* A model of aur-mirror-meta's synchronisation core:                      *)
(*   srcinfo_parse.rs  ParsedSrcInfo::parse and its accessors              *)
(*   database.rs       the index store and its transactions                *)
(*   aur_fetcher.rs    fetch_srcinfo_batch and its retry loop              *)
(*   syncer.rs         Syncer::sync: diff, producer task, consumer loop    *)
(*                                                                         *)
(* Option<T> is modelled as a sequence of length 0 (None) or 1 (Some).     *)
(* A HashMap<String, V> is a function whose DOMAIN is its key set.         *)
(***************************************************************************)
EXTENDS Integers, Sequences, FiniteSets, TLC

None == <<>>
Some(x) == <<x>>
IsSome(o) == Len(o) = 1
Unwrap(o) == o[1]
Range(s) == {s[i] : i \in 1..Len(s)}
EmptyMap == [k \in {} |-> <<>>]
RECURSIVE SeqOf(_)
SeqOf(S) == IF S = {} THEN <<>> ELSE LET x == CHOOSE y \in S : TRUE IN <<x>> \o SeqOf(S \ {x})

(***************************************************************************)
(* srcinfo_parse.rs                                                        *)
(*                                                                         *)
(* A text is the sequence of its lines, each already trimmed.  A line that *)
(* holds a '=' is [eq |-> TRUE, key, value] with key the trimmed text      *)
(* before the first '=' and value the trimmed text after it; any other     *)
(* line is [eq |-> FALSE, key |-> its text, value |-> ""].                 *)
(***************************************************************************)
KV(k, v) == [eq |-> TRUE, key |-> k, value |-> v]
Junk(s) == [eq |-> FALSE, key |-> s, value |-> ""]

\* srcinfo_text.trim().is_empty(): no line holds anything but white space
TrimIsEmpty(text) == \A i \in 1..Len(text) : ~text[i].eq /\ text[i].key = ""

\* .filter(|l| !l.is_empty())
NonEmptyLines(text) == SelectSeq(text, LAMBDA l : l.eq \/ l.key # "")

\* faulty variant: the source's values replace the destination's
merge_props_overwriting(dst, src) ==
    [k \in DOMAIN dst \cup DOMAIN src |-> IF k \in DOMAIN src THEN src[k] ELSE dst[k]]

merge_props(dst, src) ==
    [k \in DOMAIN dst \cup DOMAIN src |-> IF k \in DOMAIN dst THEN dst[k] ELSE src[k]]

\* faulty variant: a line with an empty value leaves no trace
PushPropOnlyValues(props, key, value) ==
    IF value = "" THEN props
    ELSE LET old == IF key \in DOMAIN props THEN props[key] ELSE <<>>
         IN  [k \in DOMAIN props \cup {key} |-> IF k = key THEN Append(old, value) ELSE props[k]]

\* properties.entry(key).or_default(), then push unless the value is empty
PushProp(props, key, value) ==
    LET old == IF key \in DOMAIN props THEN props[key] ELSE <<>>
        new == IF value # "" THEN Append(old, value) ELSE old
    IN  [k \in DOMAIN props \cup {key} |-> IF k = key THEN new ELSE props[k]]

ParseInit == [result |-> <<>>, current_base |-> None, current_pkg |-> None]

\* if let Some(mut pkg) = current_pkg.take() { merge with the open base; push }
FlushPkg(st) ==
    IF IsSome(st.current_pkg)
    THEN LET pkg == Unwrap(st.current_pkg)
             merged == IF IsSome(st.current_base)
                       THEN [pkg EXCEPT !.properties =
                                merge_props(@, Unwrap(st.current_base).properties)]
                       ELSE pkg
         IN  [st EXCEPT !.result = Append(@, merged), !.current_pkg = None]
    ELSE st

\* faulty variant: a line without '=' is taken for a key with no value
ParseLineKeepingJunk(st, line) ==
    IF line.key = "pkgbase" /\ line.eq THEN
        [FlushPkg(st) EXCEPT !.current_base =
            Some([pkgbase |-> line.value, properties |-> EmptyMap])]
    ELSE IF line.key = "pkgname" /\ line.eq THEN
        IF IsSome(st.current_base)
        THEN [FlushPkg(st) EXCEPT !.current_pkg =
                Some([pkgbase |-> Unwrap(st.current_base).pkgbase,
                      pkgname |-> line.value,
                      properties |-> EmptyMap])]
        ELSE st
    ELSE IF IsSome(st.current_pkg) THEN
        [st EXCEPT !.current_pkg =
            Some([Unwrap(@) EXCEPT !.properties = PushProp(@, line.key, line.value)])]
    ELSE IF IsSome(st.current_base) THEN
        [st EXCEPT !.current_base =
            Some([Unwrap(@) EXCEPT !.properties = PushProp(@, line.key, line.value)])]
    ELSE st

\* faulty variant: a new base takes over the properties of the base before it
ParseLineInheritingBase(st, line) ==
    IF ~line.eq THEN st
    ELSE IF line.key = "pkgbase" THEN
        [FlushPkg(st) EXCEPT !.current_base =
            Some([pkgbase |-> line.value,
                  properties |-> IF IsSome(st.current_base)
                                 THEN Unwrap(st.current_base).properties
                                 ELSE EmptyMap])]
    ELSE IF line.key = "pkgname" THEN
        IF IsSome(st.current_base)
        THEN [FlushPkg(st) EXCEPT !.current_pkg =
                Some([pkgbase |-> Unwrap(st.current_base).pkgbase,
                      pkgname |-> line.value,
                      properties |-> EmptyMap])]
        ELSE st
    ELSE IF IsSome(st.current_pkg) THEN
        [st EXCEPT !.current_pkg =
            Some([Unwrap(@) EXCEPT !.properties = PushProp(@, line.key, line.value)])]
    ELSE IF IsSome(st.current_base) THEN
        [st EXCEPT !.current_base =
            Some([Unwrap(@) EXCEPT !.properties = PushProp(@, line.key, line.value)])]
    ELSE st

\* faulty variant: a pkgname line opens a sub-package without an open base
ParseLineOpeningWithoutBase(st, line) ==
    IF ~line.eq THEN st
    ELSE IF line.key = "pkgbase" THEN
        [FlushPkg(st) EXCEPT !.current_base =
            Some([pkgbase |-> line.value, properties |-> EmptyMap])]
    ELSE IF line.key = "pkgname" THEN
        [FlushPkg(st) EXCEPT !.current_pkg =
            Some([pkgbase |-> IF IsSome(st.current_base)
                              THEN Unwrap(st.current_base).pkgbase ELSE "",
                  pkgname |-> line.value,
                  properties |-> EmptyMap])]
    ELSE IF IsSome(st.current_pkg) THEN
        [st EXCEPT !.current_pkg =
            Some([Unwrap(@) EXCEPT !.properties = PushProp(@, line.key, line.value)])]
    ELSE IF IsSome(st.current_base) THEN
        [st EXCEPT !.current_base =
            Some([Unwrap(@) EXCEPT !.properties = PushProp(@, line.key, line.value)])]
    ELSE st

\* one iteration of the loop over the lines
ParseLine(st, line) ==
    IF ~line.eq THEN st
    ELSE IF line.key = "pkgbase" THEN
        [FlushPkg(st) EXCEPT !.current_base =
            Some([pkgbase |-> line.value, properties |-> EmptyMap])]
    ELSE IF line.key = "pkgname" THEN
        IF IsSome(st.current_base)
        THEN [FlushPkg(st) EXCEPT !.current_pkg =
                Some([pkgbase |-> Unwrap(st.current_base).pkgbase,
                      pkgname |-> line.value,
                      properties |-> EmptyMap])]
        ELSE st
    ELSE IF IsSome(st.current_pkg) THEN
        [st EXCEPT !.current_pkg =
            Some([Unwrap(@) EXCEPT !.properties = PushProp(@, line.key, line.value)])]
    ELSE IF IsSome(st.current_base) THEN
        [st EXCEPT !.current_base =
            Some([Unwrap(@) EXCEPT !.properties = PushProp(@, line.key, line.value)])]
    ELSE st

RECURSIVE ParseLines(_, _)
ParseLines(st, lines) ==
    IF lines = <<>> THEN st ELSE ParseLines(ParseLine(st, Head(lines)), Tail(lines))

\* After the loop: flush the open sub-package; then the fallback, which takes
\* current_pkg a second time (it is None by then) and reads its pkgbase.
ParseFinish(st) ==
    LET flushed == FlushPkg(st)
        taken == flushed.current_pkg
    IN  IF flushed.result = <<>> /\ IsSome(taken)
        THEN Append(flushed.result,
                    [pkgbase |-> Unwrap(taken).pkgbase,
                     pkgname |-> Unwrap(taken).pkgbase,
                     properties |-> Unwrap(taken).properties])
        ELSE flushed.result

parse(srcinfo_text) ==
    IF TrimIsEmpty(srcinfo_text) THEN <<>>
    ELSE ParseFinish(ParseLines(ParseInit, NonEmptyLines(srcinfo_text)))

\* faulty variant: the last value of the property
last_prop(pkg, k) ==
    IF k \in DOMAIN pkg.properties /\ pkg.properties[k] # <<>>
    THEN Some(pkg.properties[k][Len(pkg.properties[k])]) ELSE None

first_prop(pkg, k) ==
    IF k \in DOMAIN pkg.properties /\ pkg.properties[k] # <<>>
    THEN Some(pkg.properties[k][1]) ELSE None

prop(pkg, k) == IF k \in DOMAIN pkg.properties THEN pkg.properties[k] ELSE <<>>

\* The remainders a key of the model can have after a prefix.
KeyTails == {"", "x86_64", "i686"}
starts_with(s, prefix) == \E t \in KeyTails : s = prefix \o t

\* sorted_unstable().dedup() leaves each value once, in sorted order: the set
\* of the values.
flatten_arch_prop(pkg, k) ==
    UNION {Range(pkg.properties[key]) :
             key \in {x \in DOMAIN pkg.properties : x = k \/ starts_with(x, k \o "_")}}

unwrap_or(o, d) == IF IsSome(o) THEN Unwrap(o) ELSE d

version(pkg) ==
    LET epoch == first_prop(pkg, "epoch")
        pkgver == unwrap_or(first_prop(pkg, "pkgver"), "0.0.1")
        pkgrel == unwrap_or(first_prop(pkg, "pkgrel"), "1")
    IN  IF IsSome(epoch)
        THEN Unwrap(epoch) \o ":" \o pkgver \o "-" \o pkgrel
        ELSE pkgver \o "-" \o pkgrel


(***************************************************************************)
(* syncer.rs: srcinfo_to_db_models                                         *)
(***************************************************************************)
srcinfo_to_db_models(branch, commit_id, srcinfo) ==
    LET pkgs == parse(srcinfo)
    IN  [i \in 1..Len(pkgs) |->
          [info |-> [branch |-> branch,
                     commit_id |-> commit_id,
                     pkg_name |-> pkgs[i].pkgname,
                     pkg_desc |-> first_prop(pkgs[i], "pkgdesc"),
                     version |-> version(pkgs[i]),
                     url |-> first_prop(pkgs[i], "url")],
           groups |-> prop(pkgs[i], "groups"),
           depends |-> SeqOf(flatten_arch_prop(pkgs[i], "depends")),
           make_depends |-> SeqOf(flatten_arch_prop(pkgs[i], "makedepends")),
           opt_depends |-> SeqOf(flatten_arch_prop(pkgs[i], "optdepends")),
           check_depends |-> SeqOf(flatten_arch_prop(pkgs[i], "checkdepends")),
           provides |-> SeqOf(flatten_arch_prop(pkgs[i], "provides")),
           conflicts |-> SeqOf(flatten_arch_prop(pkgs[i], "conflicts")),
           replaces |-> SeqOf(flatten_arch_prop(pkgs[i], "replaces"))]]

(***************************************************************************)
(* database.rs                                                             *)
(*                                                                         *)
(* A store is [branch_commits, pkg_info, attrs]: branch_commits a function *)
(* from the stored branches to their commit id, pkg_info a set of rows     *)
(* with at most one row per (branch, pkg_name), attrs a function from each *)
(* of the eight attribute tables to its set of (branch, pkg_name, value)   *)
(* rows.                                                                   *)
(***************************************************************************)
AttrTables == <<"pkg_depends", "pkg_make_depends", "pkg_opt_depends",
                "pkg_check_depends", "pkg_provides", "pkg_conflicts",
                "pkg_replaces", "pkg_groups">>
AttrTableSet == Range(AttrTables)

\* the field of DatabasePackageDetails that update_index_with_tx stores in a table
AttrItems(pkg, table) ==
    CASE table = "pkg_depends" -> pkg.depends
      [] table = "pkg_make_depends" -> pkg.make_depends
      [] table = "pkg_opt_depends" -> pkg.opt_depends
      [] table = "pkg_check_depends" -> pkg.check_depends
      [] table = "pkg_provides" -> pkg.provides
      [] table = "pkg_conflicts" -> pkg.conflicts
      [] table = "pkg_replaces" -> pkg.replaces
      [] table = "pkg_groups" -> pkg.groups

\* init_index_tables on a new file
EmptyStore ==
    [branch_commits |-> [b \in {} |-> ""],
     pkg_info |-> {},
     attrs |-> [t \in AttrTableSet |-> {}]]

\* SELECT branch, commit_id FROM branch_commits
get_existing_commits(store) == store.branch_commits

\* faulty variant: INSERT OR IGNORE, which keeps the pointer a branch has
update_branch_commit_ignoring(store, branch, commit_id) ==
    [store EXCEPT !.branch_commits =
        [b \in DOMAIN @ \cup {branch} |-> IF b \in DOMAIN @ THEN @[b] ELSE commit_id]]

\* INSERT OR REPLACE INTO branch_commits (branch, commit_id)
update_branch_commit_with_tx(store, branch, commit_id) ==
    [store EXCEPT !.branch_commits =
        [b \in DOMAIN @ \cup {branch} |-> IF b = branch THEN commit_id ELSE @[b]]]

\* faulty variant: the deletes carry no WHERE clause
clear_index_every_branch(store, branch) ==
    [store EXCEPT !.pkg_info = {}, !.attrs = [t \in AttrTableSet |-> {}]]

\* faulty variant: the attribute tables are left out of the delete
clear_index_only_pkg_info(store, branch) ==
    [store EXCEPT !.pkg_info = {r \in @ : r.branch # branch}]

\* faulty variant: the commit pointer of the branch is deleted as well
clear_index_and_pointer(store, branch) ==
    [store EXCEPT !.pkg_info = {r \in @ : r.branch # branch},
                  !.attrs = [t \in AttrTableSet |-> {r \in @[t] : r.branch # branch}],
                  !.branch_commits = [b \in DOMAIN @ \ {branch} |-> @[b]]]

\* DELETE FROM <table> WHERE branch = ?, for pkg_info and the eight tables
clear_index_with_tx(store, branch) ==
    [store EXCEPT !.pkg_info = {r \in @ : r.branch # branch},
                  !.attrs = [t \in AttrTableSet |-> {r \in @[t] : r.branch # branch}]]

\* INSERT OR IGNORE of one row of an attribute table, whose primary key is
\* (branch, pkg_name, value)
InsertOrIgnore(rows, row) ==
    IF \E r \in rows : r.branch = row.branch /\ r.pkg_name = row.pkg_name /\ r.value = row.value
    THEN rows
    ELSE rows \cup {row}

\* INSERT OR IGNORE INTO <table> (branch, pkg_name, <column>), one row per item
RECURSIVE store_array_tx(_, _, _, _)
store_array_tx(rows, branch, pkg_name, items) ==
    IF items = <<>> THEN rows
    ELSE store_array_tx(
            InsertOrIgnore(rows, [branch |-> branch, pkg_name |-> pkg_name, value |-> Head(items)]),
            branch, pkg_name, Tail(items))

\* faulty variant: INSERT OR IGNORE INTO pkg_info, which keeps the row a key has
UpsertOneIgnoring(store, pkg) ==
    [store EXCEPT
        !.pkg_info = IF \E r \in @ : r.branch = pkg.info.branch /\ r.pkg_name = pkg.info.pkg_name
                     THEN @ ELSE @ \cup {pkg.info},
        !.attrs = [t \in AttrTableSet |->
                     store_array_tx(@[t], pkg.info.branch, pkg.info.pkg_name, AttrItems(pkg, t))]]

\* one iteration of update_index_with_tx's loop: INSERT OR REPLACE INTO
\* pkg_info, then store_array_tx for each attribute table
UpsertOne(store, pkg) ==
    [store EXCEPT
        !.pkg_info = {r \in @ : ~(r.branch = pkg.info.branch /\ r.pkg_name = pkg.info.pkg_name)}
                     \cup {pkg.info},
        !.attrs = [t \in AttrTableSet |->
                     store_array_tx(@[t], pkg.info.branch, pkg.info.pkg_name, AttrItems(pkg, t))]]

RECURSIVE update_index_with_tx(_, _)
update_index_with_tx(store, packages) ==
    IF packages = <<>> THEN store
    ELSE update_index_with_tx(UpsertOne(store, Head(packages)), Tail(packages))

\* SELECT commit_id FROM branch_commits WHERE branch = ? LIMIT 1
get_branch_commit_id(store, branch) ==
    IF branch \in DOMAIN store.branch_commits THEN Some(store.branch_commits[branch]) ELSE None

\* every row a store holds for one branch, with its commit pointer
BranchState(store, branch) ==
    [commit |-> get_branch_commit_id(store, branch),
     pkg_info |-> {r \in store.pkg_info : r.branch = branch},
     attrs |-> [t \in AttrTableSet |-> {r \in store.attrs[t] : r.branch = branch}]]

(***************************************************************************)
(* The upstream repository: what the file .SRCINFO holds at each commit.   *)
(* A ref whose line carried a short object id (fetch_branch_list keeps any *)
(* id of 4 characters or more and strips 4) is in the listing as well.     *)
(***************************************************************************)
Commit1 == "1671c778dfeab04b64686baf782c5baa2d96b2ec"
Commit2 == "2b96d2aa5c287fab68646b40baefd877c1761ce4"
Commit3 == "3333333333333333333333333333333333333333"
ShortCommit == "abc"
Commits == {Commit1, Commit2, Commit3, ShortCommit}

Text1 == <<KV("pkgbase", "foo"), KV("pkgdesc", "old"), KV("pkgver", "1.0"),
           KV("pkgrel", "1"), KV("depends", "a"), Junk(""), KV("pkgname", "foo")>>
Text2 == <<KV("pkgbase", "foo"), KV("pkgver", "2.0"), KV("pkgrel", "3"),
           KV("epoch", "2"), KV("depends", "b"), KV("depends_x86_64", "c"),
           KV("pkgname", "foo"), KV("pkgname", "foo-docs"), KV("depends", "d")>>

\* None: the commit has no .SRCINFO, or the expression does not resolve
SrcinfoAt(commit) ==
    CASE commit = Commit1 -> Some(Text1)
      [] commit = Commit2 -> Some(Text2)
      [] OTHER -> None

(***************************************************************************)
(* aur_fetcher.rs: fetch_srcinfo_batch                                     *)
(***************************************************************************)
RETRY_AFTER_FINETUNING == 15

\* format!("x{i}"), i counted from 0
Alias(i) == "x" \o ToString(i)

\* the query: x{i}:object(expression:"{commit}:.SRCINFO"){... on Blob{text}}
\* for the commit at position i (from 0), in input order
BuildQuery(commits) ==
    [k \in 1..Len(commits) |-> [alias |-> Alias(k - 1), commit |-> commits[k]]]

\* faulty variant: the query is built again for a retry, from the iterator the first
\* build has exhausted
RequestBodyRebuilt(body, attempt) == IF attempt > 1 THEN <<>> ELSE body

\* .json(&request_body): the body a request of the retry loop carries
RequestBody(body, attempt) == body

\* The answer to a query: under each alias the blob's text; the alias of a
\* commit that has no such blob is not in the map.
ServerData(body) ==
    LET present == {k \in 1..Len(body) : IsSome(SrcinfoAt(body[k].commit))}
        aliases == {body[k].alias : k \in present}
        ix(a) == CHOOSE k \in present : body[k].alias = a
    IN  [a \in aliases |-> [text |-> Unwrap(SrcinfoAt(body[ix(a)].commit))]]

\* How the body of a response spells the entry of a commit whose expression
\* resolves to no blob: the alias is left out, its value is null, or its value
\* is an object without a text string ({} or {"text": null}).
MissingEntryShapes == {"absent", "null", "no_text"}

\* data.repository of the response body, as JSON: alias -> entry
ResponseJson(body, missing) ==
    LET has(k) == IsSome(SrcinfoAt(body[k].commit))
        shown == {k \in 1..Len(body) : has(k) \/ missing # "absent"}
        ix(a) == CHOOSE k \in shown : body[k].alias = a
        entry(k) == IF has(k)
                    THEN [kind |-> "blob", text |-> Unwrap(SrcinfoAt(body[k].commit))]
                    ELSE [kind |-> missing, text |-> <<>>]
    IN  [a \in {body[k].alias : k \in shown} |-> entry(ix(a))]

\* response.json::<GqlFetchSrcInfoResponse>() for repository:
\* HashMap<String, GqlFetchSrcInfoObject>, GqlFetchSrcInfoObject { text: String }.
\* An entry that is not an object with a text string is a deserialisation error.
from_json(json) ==
    IF \A a \in DOMAIN json : json[a].kind = "blob"
    THEN Some([a \in DOMAIN json |-> [text |-> json[a].text]])
    ELSE None

\* faulty variant: the aliases are read counting from 1
ExtractTextFromOne(data, i) == IF Alias(i + 1) \in DOMAIN data THEN data[Alias(i + 1)].text ELSE <<>>

\* data.repository.remove(&format!("x{i}")).map(|obj| obj.text).unwrap_or_default()
ExtractText(data, i) == IF Alias(i) \in DOMAIN data THEN data[Alias(i)].text ELSE <<>>

\* (0..n_commits).map(...)
ExtractTexts(n_commits, data) == [k \in 1..n_commits |-> ExtractText(data, k - 1)]

(***************************************************************************)
(* State.  sync() and one call of fetch_srcinfo_batch are checked as two   *)
(* processes, each under its own specification.                            *)
(***************************************************************************)
VARIABLES
    upstream,     \* what fetch_branch_list returns: branch -> commit id
    db,           \* the store as committed (what any other connection reads)
    tx,           \* Option: the store as the open transaction sees it
    pc,           \* where the task running sync() is
    to_process,   \* Vec<(branch, commit)>
    chan,         \* the mpsc channel's queue
    prod,         \* fetch_task: [pc, chunk, data, j]
    cons,         \* the consumer's locals: [srcinfo_batch, idx, packages_batch, processed_packages]
    alive,        \* FALSE once the process has been killed
    db0,          \* history: the store when sync() started
    hist          \* history: [failed, fetched, enqueued, groups, err]

svars == <<upstream, db, tx, pc, to_process, chan, prod, cons, alive, db0, hist>>

VARIABLES
    f_commits,          \* the commits argument, collected
    f_body,             \* request_body
    f_pc,               \* "loop", "ok", "err" or "panic"
    f_log,              \* per request sent: its body, the response, the sleep after it
    f_result,           \* the texts returned
    f_now,              \* Utc::now().timestamp()
    f_overflow_checks   \* the build's overflow-checks setting

fvars == <<f_commits, f_body, f_pc, f_log, f_result, f_now, f_overflow_checks>>

\* a connection of the API server inside get_package_details:
\* [pc, names, rows, i, t, cur, result]
VARIABLE rd

\* One call of ParsedSrcInfo::parse, the methods of one ParsedSrcInfo, one
\* call of fetch_branch_list, one transaction on the store, and one request
\* to the API server, each checked alone under its own specification.
VARIABLES
    parser,       \* parse: [pc, text, rest, st, result]
    pkg,          \* a ParsedSrcInfo and what its methods returned
    refs,         \* fetch_branch_list: [pc, lines, i, branches, err]
    dbtx,         \* a transaction: [pc, view, pre, log, packages, branch]
    rpc           \* a request to the API server: [pc, store, req, resp, forwarded, db_ok]
pvars == <<parser, pkg, refs, dbtx, rpc>>

vars == <<svars, fvars, rd, pvars>>

IdleParser == [pc |-> "idle", text |-> <<>>, rest |-> <<>>, st |-> ParseInit, result |-> <<>>]
IdlePkg == [pc |-> "idle", properties |-> EmptyMap, flat |-> [k \in {} |-> {}], version |-> ""]
IdleRefs == [pc |-> "idle", lines |-> <<>>, i |-> 0, branches |-> EmptyMap, err |-> ""]
IdleDbtx == [pc |-> "idle", view |-> <<>>, pre |-> <<>>, log |-> <<>>,
             packages |-> <<>>, branch |-> ""]
IdleRpc ==
    [pc |-> "idle", store |-> <<>>, req |-> <<>>, resp |-> <<>>, forwarded |-> <<>>,
     db_ok |-> TRUE]
PureIdle ==
    parser = IdleParser /\ pkg = IdlePkg /\ refs = IdleRefs /\ dbtx = IdleDbtx /\ rpc = IdleRpc

IdleReader == [pc |-> "idle", names |-> {}, rows |-> <<>>, i |-> 0, t |-> 0,
               cur |-> [a \in {} |-> {}], result |-> <<>>]
ReaderIdle == rd = IdleReader

(***************************************************************************)
(* fetch_srcinfo_batch as a process: one action per kind of response, each *)
(* action one iteration of the retry loop (build the request, send it,     *)
(* handle the response).  u64 is scaled to 0 .. U64_MODULUS - 1; an        *)
(* arithmetic overflow panics when the build checks overflow (debug) and   *)
(* wraps when it does not (release).                                       *)
(***************************************************************************)
U64_MODULUS == 64
MaxRequests == 3
MaxCommits == 2
StartTime == 20

\* values of a Retry-After header that parse::<u64>() accepts
RetryAfterSecs == {0, 5, U64_MODULUS - RETRY_AFTER_FINETUNING, U64_MODULUS - 1}

\* a + b in u64: [ok, value]
add_u64(a, b) == [ok |-> a + b < U64_MODULUS, value |-> (a + b) % U64_MODULUS]
\* a - b in u64
sub_u64(a, b) == [ok |-> a >= b, value |-> (a - b) % U64_MODULUS]
\* (x as u64) of an i64
as_u64(x) == x % U64_MODULUS

FetchInit ==
    /\ f_commits \in UNION {[1..n -> {Commit1, Commit3, ShortCommit}] : n \in 0..MaxCommits}
    /\ f_body = BuildQuery(f_commits)
    /\ f_pc = "loop"
    /\ f_log = <<>>
    /\ f_result = <<>>
    /\ f_now = StartTime
    /\ f_overflow_checks \in BOOLEAN

\* request_builder.json(&request_body).send()
CanSend == f_pc = "loop" /\ Len(f_log) < MaxRequests
Sent(resp, slept) ==
    Append(f_log, [body |-> RequestBody(f_body, Len(f_log) + 1), resp |-> resp, slept |-> slept])

\* sleep(Duration::from_secs(wait_time)).await; continue
SleepAndRetry(resp, wait_time) ==
    /\ f_log' = Sent(resp, Some(wait_time))
    /\ f_now' = f_now + wait_time
    /\ UNCHANGED <<f_commits, f_body, f_pc, f_result, f_overflow_checks, svars, rd, pvars>>

\* an overflowing operation: panic under overflow checks
Panic(resp) ==
    /\ f_log' = Sent(resp, None)
    /\ f_pc' = "panic"
    /\ UNCHANGED <<f_commits, f_body, f_result, f_now, f_overflow_checks, svars, rd, pvars>>

\* Err(..)? out of the function
Fail(resp) ==
    /\ f_log' = Sent(resp, None)
    /\ f_pc' = "err"
    /\ UNCHANGED <<f_commits, f_body, f_result, f_now, f_overflow_checks, svars, rd, pvars>>

\* wait_time = <secs> + RETRY_AFTER_FINETUNING; sleep; continue
WaitFinetuned(resp, secs) ==
    LET sum == add_u64(secs, RETRY_AFTER_FINETUNING)
    IN  IF ~sum.ok /\ f_overflow_checks THEN Panic(resp) ELSE SleepAndRetry(resp, sum.value)

\* send() fails
FSendError == CanSend /\ Fail([kind |-> "send_error"])

\* faulty variant: the errors field is not looked at
FSuccessIgnoringErrors ==
    /\ CanSend
    /\ \E shape \in {"data", "bad_json", "errors", "no_data"},
          missing \in MissingEntryShapes :
         LET resp == [kind |-> "success", shape |-> shape, missing |-> missing]
             body == RequestBody(f_body, Len(f_log) + 1)
             parsed == from_json(ResponseJson(body, missing))
         IN
         /\ missing # "absent" =>
               shape = "data" /\ \E k \in 1..Len(body) : ~IsSome(SrcinfoAt(body[k].commit))
         /\ IF shape \in {"data", "errors"} /\ IsSome(parsed)
            THEN /\ f_log' = Sent(resp, None)
                 /\ f_pc' = "ok"
                 /\ f_result' = ExtractTexts(Len(f_commits), Unwrap(parsed))
                 /\ UNCHANGED <<f_commits, f_body, f_now, f_overflow_checks, svars, rd, pvars>>
            ELSE Fail(resp)

\* a success status: json() of the body, then the errors and data fields
FSuccess ==
    /\ CanSend
    /\ \E shape \in {"data", "bad_json", "errors", "no_data"},
          missing \in MissingEntryShapes :
         LET resp == [kind |-> "success", shape |-> shape, missing |-> missing]
             body == RequestBody(f_body, Len(f_log) + 1)
             parsed == from_json(ResponseJson(body, missing))
         IN
         /\ missing # "absent" =>
               shape = "data" /\ \E k \in 1..Len(body) : ~IsSome(SrcinfoAt(body[k].commit))
         /\ IF shape = "data" /\ IsSome(parsed)
            THEN /\ f_log' = Sent(resp, None)
                 /\ f_pc' = "ok"
                 /\ f_result' = ExtractTexts(Len(f_commits), Unwrap(parsed))
                 /\ UNCHANGED <<f_commits, f_body, f_now, f_overflow_checks, svars, rd, pvars>>
            ELSE Fail(resp)

\* non-success, Retry-After: <integer>
FRetryAfterSecs ==
    /\ CanSend
    /\ \E n \in RetryAfterSecs : WaitFinetuned([kind |-> "retry_after_secs", n |-> n], n)

\* non-success, Retry-After: <RFC 2822 date>; the clock is read twice and
\* may have moved on between the two reads
FRetryAfterDate ==
    /\ CanSend
    /\ \E ts \in {f_now - 1, f_now, f_now + 3}, tick \in {0, 1} :
         LET resp == [kind |-> "retry_after_date", n |-> ts - f_now, tick |-> tick] IN
         IF ts >= f_now
         THEN LET sum == add_u64(as_u64(ts - (f_now + tick)), RETRY_AFTER_FINETUNING) IN
              IF ~sum.ok /\ f_overflow_checks THEN Panic(resp)
              ELSE /\ f_log' = Sent(resp, Some(sum.value))
                   /\ f_now' = f_now + tick + sum.value
                   /\ UNCHANGED <<f_commits, f_body, f_pc, f_result, f_overflow_checks, svars, rd, pvars>>
         ELSE \* warn!("Illegal Retry-After header"); continue
              /\ tick = 0
              /\ f_log' = Sent(resp, None)
              /\ UNCHANGED <<f_commits, f_body, f_pc, f_result, f_now, f_overflow_checks, svars, rd, pvars>>

\* non-success, Retry-After neither an integer nor a date: warn; continue
FRetryAfterIllegal ==
    /\ CanSend
    /\ f_log' = Sent([kind |-> "retry_after_illegal"], None)
    /\ UNCHANGED <<f_commits, f_body, f_pc, f_result, f_now, f_overflow_checks, svars, rd, pvars>>

\* non-success, no Retry-After, x-ratelimit-remaining: 0
FRateLimited ==
    /\ CanSend
    /\ \E reset \in {None, Some(f_now - 16), Some(f_now - 2), Some(f_now + 4)} :
         LET resp == [kind |-> "rate_limited", reset |-> reset, now |-> f_now]
             rate_limit_reset == unwrap_or(reset, f_now)
             diff == sub_u64(rate_limit_reset, f_now)
         IN  IF ~diff.ok /\ f_overflow_checks THEN Panic(resp)
             ELSE WaitFinetuned(resp, diff.value)

\* faulty variant: any other non-success status is retried after the margin
FOtherStatusRetried == CanSend /\ SleepAndRetry([kind |-> "status"], RETRY_AFTER_FINETUNING)

\* non-success with neither signal
FOtherStatus == CanSend /\ Fail([kind |-> "status"])

NextFetch ==
    \/ FSendError
    \/ FSuccess
    \/ FRetryAfterSecs
    \/ FRetryAfterDate
    \/ FRetryAfterIllegal
    \/ FRateLimited
    \/ FOtherStatus

(***************************************************************************)
(* syncer.rs: Syncer::sync                                                 *)
(*                                                                         *)
(* BATCH_SIZE is 150 in the source and scaled down here; the channel holds *)
(* BATCH_SIZE * 2 tuples as in the source.                                 *)
(***************************************************************************)
BATCH_SIZE == 2
ChannelCapacity == BATCH_SIZE * 2

Branches == {"paru", "yay", "zsh"}

Min(a, b) == IF a < b THEN a ELSE b

\* every function from a subset of D to V
Maps(D, V) == UNION {[S -> V] : S \in SUBSET D}

\* every ordering of a finite set, as sequences without repetition
Orderings(S) == {q \in [1..Cardinality(S) -> S] : \A i, j \in 1..Cardinality(S) : q[i] = q[j] => i = j}

\* the store a completed sync leaves for a branch -> commit map whose
\* commits all have a description
IndexOf(m) ==
    LET RECURSIVE Build(_, _)
        Build(store, todo) ==
            IF todo = {} THEN store
            ELSE LET b == CHOOSE x \in todo : TRUE
                     withCommit == update_branch_commit_with_tx(clear_index_with_tx(store, b), b, m[b])
                     text == unwrap_or(SrcinfoAt(m[b]), <<>>)
                 IN  Build(update_index_with_tx(withCommit, srcinfo_to_db_models(b, m[b], text)),
                           todo \ {b})
    IN  Build(EmptyStore, DOMAIN m)

\* faulty variant: a stored branch counts as up to date whatever its commit
NeedsProcessingOnlyNew(existing_commits, branch, commit) ==
    branch \notin DOMAIN existing_commits

\* .filter(|(branch, commit)| existing_commits.get(branch) != Some(commit))
NeedsProcessing(existing_commits, branch, commit) ==
    ~(branch \in DOMAIN existing_commits /\ existing_commits[branch] = commit)

\* to_process.chunks(BATCH_SIZE): the k-th chunk, k from 1
NumChunks(list) == (Len(list) + BATCH_SIZE - 1) \div BATCH_SIZE
Chunk(list, k) == SubSeq(list, (k - 1) * BATCH_SIZE + 1, Min(k * BATCH_SIZE, Len(list)))

\* chunk.iter().map(|(_, commit)| commit.as_str())
ChunkCommits(chunk) == [i \in 1..Len(chunk) |-> chunk[i][2]]

\* what a successful fetch_srcinfo_batch returns for these commits
fetch_srcinfo_batch(commits) ==
    ExtractTexts(Len(commits), ServerData(RequestBody(BuildQuery(commits), 1)))

\* chunk.iter().zip(srcinfo_data): the j-th SrcInfoTuple
ZipTuple(chunk, data, j) ==
    [branch |-> chunk[j][1], commit |-> chunk[j][2], srcinfo_text |-> data[j]]

IdleProd == [pc |-> "idle", chunk |-> 0, data |-> <<>>, j |-> 0]
IdleCons == [srcinfo_batch |-> <<>>, idx |-> 0, packages_batch |-> <<>>, processed_packages |-> 0]
NoHist == [failed |-> {}, fetched |-> <<>>, enqueued |-> <<>>, groups |-> <<>>, err |-> "",
           pass |-> 1, prev_clean |-> FALSE]

\* (stored commit, upstream commit) of one branch; None: not there
BranchCases ==
    {<<Some(Commit1), Some(Commit1)>>,      \* up to date
     <<Some(Commit1), Some(Commit2)>>,      \* updated upstream
     <<None, Some(Commit2)>>,               \* new upstream
     <<None, Some(Commit3)>>,               \* new, without a description
     <<None, Some(ShortCommit)>>,           \* new, listed with a short object id
     <<Some(Commit1), None>>}               \* gone upstream

SyncInit(cases) ==
    /\ \E case \in [Branches -> cases] :
         /\ upstream = [b \in {x \in Branches : IsSome(case[x][2])} |-> Unwrap(case[b][2])]
         /\ db = IndexOf([b \in {x \in Branches : IsSome(case[x][1])} |-> Unwrap(case[b][1])])
    /\ db0 = db
    /\ tx = None
    /\ pc = "start"
    /\ to_process = <<>>
    /\ chan = <<>>
    /\ prod = IdleProd
    /\ cons = IdleCons
    /\ alive = TRUE
    /\ hist = NoHist

Running == alive /\ pc \notin {"done_ok", "done_err", "panicked"}
ReceiverDropped == pc \in {"done_err", "panicked"}
\* faulty variant: the sender outlives a fetch_task that ran to its end
SenderDroppedOnlyOnPanic == prod.pc = "panicked"
SenderDropped == prod.pc \in {"done", "panicked"}

\* fetch_branch_list or get_existing_commits returns an error
StartFails ==
    /\ alive /\ pc = "start"
    /\ pc' = "done_err"
    /\ hist' = [hist EXCEPT !.err = "start"]
    /\ UNCHANGED <<upstream, db, tx, to_process, chan, prod, cons, alive, db0, fvars, rd, pvars>>

\* sync() up to the spawn of fetch_task: list, read the stored commits,
\* diff (a hash map iterates in any order), return if nothing is to do
Start ==
    /\ alive /\ pc = "start"
    /\ LET existing_commits == get_existing_commits(db)
           todo == {b \in DOMAIN upstream : NeedsProcessing(existing_commits, b, upstream[b])}
       IN  \E order \in Orderings(todo) :
             /\ to_process' = [i \in 1..Len(order) |-> <<order[i], upstream[order[i]]>>]
             /\ IF todo = {}
                THEN pc' = "done_ok" /\ prod' = prod
                ELSE pc' = "recv" /\ prod' = [IdleProd EXCEPT !.pc = "fetch", !.chunk = 1]
    /\ UNCHANGED <<upstream, db, tx, chan, cons, alive, db0, hist, fvars, rd, pvars>>

\* fetch_task: the state after chunk k is over
AfterChunk(k) ==
    IF k < NumChunks(to_process)
    THEN [IdleProd EXCEPT !.pc = "fetch", !.chunk = k + 1]
    ELSE [IdleProd EXCEPT !.pc = "done", !.chunk = k]

\* fetcher.fetch_srcinfo_batch(commits).await returns Ok(srcinfo_data)
FetchOk ==
    /\ alive /\ prod.pc = "fetch"
    /\ prod' = [prod EXCEPT !.pc = "send", !.j = 1,
                            !.data = fetch_srcinfo_batch(ChunkCommits(Chunk(to_process, prod.chunk)))]
    /\ hist' = [hist EXCEPT !.fetched = Append(@, prod.chunk)]
    /\ UNCHANGED <<upstream, db, tx, pc, to_process, chan, cons, alive, db0, fvars, rd, pvars>>

\* faulty variant: a failed batch ends the task
FetchErrAborts ==
    /\ alive /\ prod.pc = "fetch"
    /\ prod' = [IdleProd EXCEPT !.pc = "done", !.chunk = prod.chunk]
    /\ hist' = [hist EXCEPT !.fetched = Append(@, prod.chunk), !.failed = @ \cup {prod.chunk}]
    /\ UNCHANGED <<upstream, db, tx, pc, to_process, chan, cons, alive, db0, fvars, rd, pvars>>

\* ... returns Err(e): error!("Error fetching batch"), next chunk
FetchErr ==
    /\ alive /\ prod.pc = "fetch"
    /\ prod' = AfterChunk(prod.chunk)
    /\ hist' = [hist EXCEPT !.fetched = Append(@, prod.chunk), !.failed = @ \cup {prod.chunk}]
    /\ UNCHANGED <<upstream, db, tx, pc, to_process, chan, cons, alive, db0, fvars, rd, pvars>>

\* ... panics (an arithmetic overflow of the retry loop under overflow checks)
FetchPanic ==
    /\ alive /\ prod.pc = "fetch"
    /\ prod' = [IdleProd EXCEPT !.pc = "panicked", !.chunk = prod.chunk]
    /\ hist' = [hist EXCEPT !.fetched = Append(@, prod.chunk)]
    /\ UNCHANGED <<upstream, db, tx, pc, to_process, chan, cons, alive, db0, fvars, rd, pvars>>

\* faulty variant: the channel hands out the newest tuple first
SendToFront ==
    /\ alive /\ prod.pc = "send"
    /\ ~ReceiverDropped
    /\ Len(chan) < ChannelCapacity
    /\ LET chunk == Chunk(to_process, prod.chunk)
           tuple == ZipTuple(chunk, prod.data, prod.j)
       IN  /\ chan' = <<tuple>> \o chan
           /\ hist' = [hist EXCEPT !.enqueued = Append(@, tuple)]
           /\ prod' = IF prod.j < Min(Len(chunk), Len(prod.data))
                      THEN [prod EXCEPT !.j = @ + 1]
                      ELSE AfterChunk(prod.chunk)
    /\ UNCHANGED <<upstream, db, tx, pc, to_process, cons, alive, db0, fvars, rd, pvars>>

\* db_sender.send(tuple).await: Ok once the channel has room
Send ==
    /\ alive /\ prod.pc = "send"
    /\ ~ReceiverDropped
    /\ Len(chan) < ChannelCapacity
    /\ LET chunk == Chunk(to_process, prod.chunk)
           tuple == ZipTuple(chunk, prod.data, prod.j)
       IN  /\ chan' = Append(chan, tuple)
           /\ hist' = [hist EXCEPT !.enqueued = Append(@, tuple)]
           /\ prod' = IF prod.j < Min(Len(chunk), Len(prod.data))
                      THEN [prod EXCEPT !.j = @ + 1]
                      ELSE AfterChunk(prod.chunk)
    /\ UNCHANGED <<upstream, db, tx, pc, to_process, cons, alive, db0, fvars, rd, pvars>>

\* send fails, the receiver is gone: error!, break out of the chunk's loop
SendFails ==
    /\ alive /\ prod.pc = "send"
    /\ ReceiverDropped
    /\ prod' = AfterChunk(prod.chunk)
    /\ UNCHANGED <<upstream, db, tx, pc, to_process, chan, cons, alive, db0, hist, fvars, rd, pvars>>

\* faulty variant: one more item leaves the channel than the group holds
RecvDropsOneMore ==
    /\ alive /\ pc = "recv"
    /\ chan # <<>>
    /\ LET count == Min(Len(chan), BATCH_SIZE)
       IN  /\ cons' = [cons EXCEPT !.srcinfo_batch = SubSeq(chan, 1, count),
                                   !.packages_batch = <<>>, !.idx = 0]
           /\ chan' = SubSeq(chan, count + 2, Len(chan))
    /\ pc' = "begin"
    /\ UNCHANGED <<upstream, db, tx, to_process, prod, alive, db0, hist, fvars, rd, pvars>>

\* db_receiver.recv_many(&mut srcinfo_batch, BATCH_SIZE) returns count > 0
Recv ==
    /\ alive /\ pc = "recv"
    /\ chan # <<>>
    /\ LET count == Min(Len(chan), BATCH_SIZE)
       IN  /\ cons' = [cons EXCEPT !.srcinfo_batch = SubSeq(chan, 1, count),
                                   !.packages_batch = <<>>, !.idx = 0]
           /\ chan' = SubSeq(chan, count + 1, Len(chan))
    /\ pc' = "begin"
    /\ UNCHANGED <<upstream, db, tx, to_process, prod, alive, db0, hist, fvars, rd, pvars>>

\* recv_many returns 0 (closed and empty): break; fetch_task.await?; Ok(())
RecvClosed ==
    /\ alive /\ pc = "recv"
    /\ chan = <<>> /\ SenderDropped
    /\ pc' = IF prod.pc = "done" THEN "done_ok" ELSE "done_err"
    /\ hist' = [hist EXCEPT !.err = IF prod.pc = "done" THEN @ ELSE "join"]
    /\ cons' = [cons EXCEPT !.srcinfo_batch = <<>>, !.packages_batch = <<>>, !.idx = 0]
    /\ UNCHANGED <<upstream, db, tx, to_process, chan, prod, alive, db0, fvars, rd, pvars>>

\* self.db.begin_transaction().await
Begin ==
    /\ alive /\ pc = "begin"
    /\ tx' = Some(db)
    /\ cons' = [cons EXCEPT !.idx = 1]
    /\ pc' = "clear"
    /\ UNCHANGED <<upstream, db, to_process, chan, prod, alive, db0, hist, fvars, rd, pvars>>

\* faulty variant: the deletes run on the pool, outside the transaction
ClearOnPool ==
    /\ alive /\ pc = "clear"
    /\ db' = clear_index_with_tx(db, cons.srcinfo_batch[cons.idx].branch)
    /\ pc' = "set_commit"
    /\ UNCHANGED <<upstream, tx, to_process, chan, prod, cons, alive, db0, hist, fvars, rd, pvars>>

\* self.db.clear_index_with_tx(&mut tx, branch).await
Clear ==
    /\ alive /\ pc = "clear"
    /\ tx' = Some(clear_index_with_tx(Unwrap(tx), cons.srcinfo_batch[cons.idx].branch))
    /\ pc' = "set_commit"
    /\ UNCHANGED <<upstream, db, to_process, chan, prod, cons, alive, db0, hist, fvars, rd, pvars>>

\* faulty variant: the commit pointer is written on the pool, outside the transaction
SetCommitOnPool ==
    /\ alive /\ pc = "set_commit"
    /\ LET t == cons.srcinfo_batch[cons.idx]
           branch_packages == srcinfo_to_db_models(t.branch, t.commit, t.srcinfo_text)
       IN  IF branch_packages = <<>> /\ Len(t.commit) < 8
           THEN /\ pc' = "panicked"
                /\ tx' = None
                /\ cons' = cons
                /\ db' = update_branch_commit_with_tx(db, t.branch, t.commit)
           ELSE /\ db' = update_branch_commit_with_tx(db, t.branch, t.commit)
                /\ tx' = tx
                /\ cons' = [cons EXCEPT !.packages_batch = @ \o branch_packages,
                                        !.idx = @ + 1]
                /\ pc' = IF cons.idx < Len(cons.srcinfo_batch) THEN "clear"
                         ELSE IF cons.packages_batch \o branch_packages # <<>> THEN "upsert"
                         ELSE "commit"
    /\ UNCHANGED <<upstream, to_process, chan, prod, alive, db0, hist, fvars, rd, pvars>>

\* update_branch_commit_with_tx, then the rest of the loop body:
\* srcinfo_to_db_models, extend, and the warning, whose &commit[..8]
\* panics on a commit id shorter than 8
SetCommit ==
    /\ alive /\ pc = "set_commit"
    /\ LET t == cons.srcinfo_batch[cons.idx]
           branch_packages == srcinfo_to_db_models(t.branch, t.commit, t.srcinfo_text)
       IN  IF branch_packages = <<>> /\ Len(t.commit) < 8
           THEN /\ pc' = "panicked"
                /\ tx' = None
                /\ cons' = cons
           ELSE /\ tx' = Some(update_branch_commit_with_tx(Unwrap(tx), t.branch, t.commit))
                /\ cons' = [cons EXCEPT !.packages_batch = @ \o branch_packages,
                                        !.idx = @ + 1]
                /\ pc' = IF cons.idx < Len(cons.srcinfo_batch) THEN "clear"
                         ELSE IF cons.packages_batch \o branch_packages # <<>> THEN "upsert"
                         ELSE "commit"
    /\ UNCHANGED <<upstream, db, to_process, chan, prod, alive, db0, hist, fvars, rd, pvars>>

\* self.db.update_index_with_tx(&mut tx, &packages_batch).await
Upsert ==
    /\ alive /\ pc = "upsert"
    /\ tx' = Some(update_index_with_tx(Unwrap(tx), cons.packages_batch))
    /\ cons' = [cons EXCEPT !.processed_packages = @ + Len(cons.packages_batch)]
    /\ pc' = "commit"
    /\ UNCHANGED <<upstream, db, to_process, chan, prod, alive, db0, hist, fvars, rd, pvars>>

\* what a commit makes of the store, given the transaction's view
Committed(store, view) == view

\* tx.commit().await
Commit ==
    /\ alive /\ pc = "commit"
    /\ db' = Committed(db, Unwrap(tx))
    /\ tx' = None
    /\ pc' = "recv"
    /\ hist' = [hist EXCEPT !.groups = Append(@, cons.srcinfo_batch)]
    /\ UNCHANGED <<upstream, to_process, chan, prod, cons, alive, db0, fvars, rd, pvars>>

\* what the store holds after the transaction was dropped without a commit
RolledBack(store, view) == store

\* faulty variant: the error is logged and the loop goes on with the next group
StorageErrorSwallowed ==
    /\ alive /\ pc \in {"begin", "clear", "set_commit", "upsert", "commit"}
    /\ db' = db
    /\ tx' = None
    /\ pc' = "recv"
    /\ hist' = [hist EXCEPT !.err = pc]
    /\ UNCHANGED <<upstream, to_process, chan, prod, cons, alive, db0, fvars, rd, pvars>>

\* any of begin, clear, update_branch_commit, update_index, commit returns
\* Err: `?` leaves sync(), dropping the transaction and the receiver
StorageError ==
    /\ alive /\ pc \in {"begin", "clear", "set_commit", "upsert", "commit"}
    /\ db' = IF IsSome(tx) THEN RolledBack(db, Unwrap(tx)) ELSE db
    /\ tx' = None
    /\ pc' = "done_err"
    /\ hist' = [hist EXCEPT !.err = pc]
    /\ UNCHANGED <<upstream, to_process, chan, prod, cons, alive, db0, fvars, rd, pvars>>

\* the process is killed; what was committed stays on disk
Crash ==
    /\ Running
    /\ alive' = FALSE
    /\ db' = IF IsSome(tx) THEN RolledBack(db, Unwrap(tx)) ELSE db
    /\ UNCHANGED <<upstream, tx, pc, to_process, chan, prod, cons, db0, hist, fvars, rd, pvars>>

Next ==
    \/ StartFails
    \/ Start
    \/ FetchOk
    \/ FetchErr
    \/ FetchPanic
    \/ Send
    \/ SendFails
    \/ Recv
    \/ RecvClosed
    \/ Begin
    \/ Clear
    \/ SetCommit
    \/ Upsert
    \/ Commit
    \/ StorageError
    \/ Crash

\* the other process's variables while one is checked alone
FetchIdle ==
    /\ f_commits = <<>> /\ f_body = <<>> /\ f_pc = "idle" /\ f_log = <<>>
    /\ f_result = <<>> /\ f_now = StartTime /\ f_overflow_checks = FALSE
SyncIdle ==
    /\ upstream = [b \in {} |-> ""] /\ db = EmptyStore /\ db0 = EmptyStore /\ tx = None
    /\ pc = "idle" /\ to_process = <<>> /\ chan = <<>> /\ prod = IdleProd
    /\ cons = IdleCons /\ alive = TRUE /\ hist = NoHist

Init == SyncInit(BranchCases) /\ FetchIdle /\ ReaderIdle /\ PureIdle
Spec == Init /\ [][Next]_vars

InitFetch == FetchInit /\ SyncIdle /\ ReaderIdle /\ PureIdle
SpecFetch == InitFetch /\ [][NextFetch]_vars

(***************************************************************************)
(* database.rs: get_package_details, run by the API server on its own      *)
(* pool connections while sync() runs.  Each query is one step and reads   *)
(* the store as committed at that moment.                                  *)
(***************************************************************************)
\* SELECT <column> FROM <table> WHERE pkg_name = ? AND branch = ?
SelectAttr(store, table, pkg_name, branch) ==
    {r.value : r \in {x \in store.attrs[table] : x.pkg_name = pkg_name /\ x.branch = branch}}

\* SELECT * FROM pkg_info WHERE pkg_name IN (...): the rows come in any order
ReadPkgInfo ==
    /\ rd.pc = "idle"
    /\ \E names \in {{"foo"}} :
         LET found == {r \in db.pkg_info : r.pkg_name \in names}
         IN  \E order \in Orderings(found) :
               rd' = [IdleReader EXCEPT !.names = names, !.rows = order,
                                        !.pc = IF found = {} THEN "done" ELSE "attrs",
                                        !.i = 1, !.t = 1]
    /\ UNCHANGED <<svars, fvars, pvars>>

\* the query of one attribute table for the row at hand; after the eighth
\* the DatabasePackageDetails is complete and the next row is taken
ReadAttr ==
    /\ rd.pc = "attrs"
    /\ LET row == rd.rows[rd.i]
           table == AttrTables[rd.t]
           values == SelectAttr(db, table, row.pkg_name, row.branch)
           cur == [a \in DOMAIN rd.cur \cup {table} |-> IF a = table THEN values ELSE rd.cur[a]]
       IN  IF rd.t < Len(AttrTables)
           THEN rd' = [rd EXCEPT !.cur = cur, !.t = @ + 1]
           ELSE rd' = [rd EXCEPT !.result = Append(@, [info |-> row, attrs |-> cur]),
                                 !.cur = [a \in {} |-> {}],
                                 !.t = 1,
                                 !.i = @ + 1,
                                 !.pc = IF rd.i < Len(rd.rows) THEN "attrs" ELSE "done"]
    /\ UNCHANGED <<svars, fvars, pvars>>

\* (stored, upstream) of a branch while a reader is checked
ReadCases ==
    {<<Some(Commit1), Some(Commit1)>>,
     <<Some(Commit1), Some(Commit2)>>,
     <<None, Some(Commit2)>>}

InitRead == SyncInit(ReadCases) /\ FetchIdle /\ ReaderIdle /\ PureIdle

\* sync() without failures, and the reader
NextRead ==
    \/ Start
    \/ FetchOk
    \/ Send
    \/ Recv
    \/ RecvClosed
    \/ Begin
    \/ Clear
    \/ SetCommit
    \/ Upsert
    \/ Commit
    \/ ReadPkgInfo
    \/ ReadAttr
SpecRead == InitRead /\ [][NextRead]_vars

(***************************************************************************)
(* Claims about sync(), checked under Spec.                                *)
(***************************************************************************)
StorageOps == {"begin", "clear", "set_commit", "upsert", "commit"}

\* the description the upstream returns for a commit
FetchedText(commit) == unwrap_or(SrcinfoAt(commit), <<>>)

\* the rows of a branch indexed at a commit: the commit pointer, one pkg_info
\* row per record parsed from the commit's description, one attribute row per
\* value of each record
IndexedAt(branch, commit) ==
    LET ms == srcinfo_to_db_models(branch, commit, FetchedText(commit))
    IN  [commit |-> Some(commit),
         pkg_info |-> {ms[i].info : i \in 1..Len(ms)},
         attrs |-> [t \in AttrTableSet |->
                      UNION {{[branch |-> branch, pkg_name |-> ms[i].info.pkg_name, value |-> v] :
                                v \in Range(AttrItems(ms[i], t))} : i \in 1..Len(ms)}]]

ToProcessBranches == {to_process[i][1] : i \in 1..Len(to_process)}
ChunkBranches(k) == {Chunk(to_process, k)[i][1] : i \in 1..Len(Chunk(to_process, k))}
Unchanged(b) == BranchState(db, b) = BranchState(db0, b)

\* the branches the open transaction has cleared so far
ClearedInTx ==
    IF ~IsSome(tx) THEN {}
    ELSE {cons.srcinfo_batch[i].branch :
            i \in 1..(IF pc = "clear" THEN cons.idx - 1
                      ELSE IF pc = "set_commit" THEN cons.idx
                      ELSE Len(cons.srcinfo_batch))}

\* C1: in every committed state of the store, also one left by a crash or a
\* storage error at any step of the consumer, each branch is entirely in its
\* state from before the sync or entirely in its new state (pointer and
\* records of the upstream commit), and no pkg_info row carries a commit_id
\* other than its branch's commit pointer.
C1_CommittedStateIsAtomicPerBranch ==
    /\ \A b \in Branches :
         \/ Unchanged(b)
         \/ b \in DOMAIN upstream /\ BranchState(db, b) = IndexedAt(b, upstream[b])
    /\ \A r \in db.pkg_info : get_branch_commit_id(db, r.branch) = Some(r.commit_id)

\* a crash with a transaction open that had changed its view, after an
\* earlier group was committed
C1_Witness ==
    /\ ~alive /\ IsSome(tx) /\ Unwrap(tx) # db /\ db # db0

\* C2: when the process is killed after clear(branch) ran in the open
\* transaction and before the commit, the store holds for that branch exactly
\* the rows and the commit pointer it held when the sync started.
C2_CrashAfterClearKeepsPriorRows ==
    (~alive /\ IsSome(tx)) => \A b \in ClearedInTx : Unchanged(b)

\* killed with a transaction open whose view has lost rows the store holds
C2_Witness ==
    /\ ~alive /\ IsSome(tx)
    /\ \E b \in ClearedInTx :
         /\ BranchState(db0, b).pkg_info # {}
         /\ BranchState(Unwrap(tx), b).pkg_info = {}

\* C3: once the diff is computed, a branch is in the to-process list iff it is
\* listed upstream and its upstream commit differs from, or is absent from,
\* the stored map; it is there with its upstream commit, once.
C3_ToProcessIsTheDiff ==
    (pc # "start" /\ hist.err # "start") =>
        /\ \A b \in Branches :
             b \in ToProcessBranches <=>
                /\ b \in DOMAIN upstream
                /\ \/ b \notin DOMAIN db0.branch_commits
                   \/ db0.branch_commits[b] # upstream[b]
        /\ \A i \in 1..Len(to_process) : to_process[i][2] = upstream[to_process[i][1]]
        /\ Cardinality(ToProcessBranches) = Len(to_process)

\* a diff that kept an up-to-date branch out and took an updated and a new one
C3_Witness ==
    /\ pc = "recv"
    /\ \E b \in DOMAIN upstream \ ToProcessBranches : db0.branch_commits[b] = upstream[b]
    /\ \E b \in ToProcessBranches : b \in DOMAIN db0.branch_commits
    /\ \E b \in ToProcessBranches : b \notin DOMAIN db0.branch_commits

\* C4: when sync() has returned Ok with no failed batch, every upstream branch
\* has its upstream commit as its stored pointer, and every processed branch
\* holds exactly the records parsed from the description of its new commit,
\* each carrying that commit: nothing of the previous commit is left.
C4_SuccessfulSyncStoresUpstream ==
    (pc = "done_ok" /\ hist.failed = {}) =>
        /\ \A b \in DOMAIN upstream : get_branch_commit_id(db, b) = Some(upstream[b])
        /\ \A b \in ToProcessBranches : BranchState(db, b) = IndexedAt(b, upstream[b])
        /\ \A b \in ToProcessBranches : \A r \in BranchState(db, b).pkg_info :
             r.commit_id = upstream[b]
        /\ \A b \in Branches \ ToProcessBranches : Unchanged(b)

\* a finished sync that replaced the records of an updated branch and left
\* an up-to-date branch alone
C4_Witness ==
    /\ pc = "done_ok" /\ hist.failed = {}
    /\ \E b \in ToProcessBranches :
         /\ get_branch_commit_id(db0, b) = Some(Commit1)
         /\ upstream[b] = Commit2
    /\ \E b \in DOMAIN upstream \ ToProcessBranches : TRUE

\* C5: a batch whose fetch failed puts nothing on the channel; the producer
\* still fetches every later batch and enqueues the tuples of those that
\* succeed; the branches of a failed batch keep pointer and records; and the
\* failure alone never makes sync() return an error.
C5_FailedBatchIsSkipped ==
    /\ \A k \in hist.failed :
         /\ \A i \in 1..Len(hist.enqueued) : hist.enqueued[i].branch \notin ChunkBranches(k)
         /\ \A b \in ChunkBranches(k) : Unchanged(b)
    /\ prod.pc = "done" => Range(hist.fetched) = 1..NumChunks(to_process)
    /\ pc = "done_ok" =>
         \A k \in 1..NumChunks(to_process) : k \notin hist.failed =>
            \A b \in ChunkBranches(k) : \E i \in 1..Len(hist.enqueued) : hist.enqueued[i].branch = b
    /\ pc = "done_err" => (hist.err \in StorageOps \cup {"start"} \/ prod.pc = "panicked")

\* sync() returned Ok after the first batch failed and a later one was
\* fetched, enqueued and written
C5_Witness ==
    /\ pc = "done_ok"
    /\ 1 \in hist.failed
    /\ 2 \in Range(hist.fetched) \ hist.failed
    /\ hist.enqueued # <<>>
    /\ db # db0

\* the state of a branch after the group holding this tuple was committed
WrittenState(t) ==
    LET ms == srcinfo_to_db_models(t.branch, t.commit, t.srcinfo_text)
    IN  [commit |-> Some(t.commit),
         pkg_info |-> {ms[i].info : i \in 1..Len(ms)},
         attrs |-> [a \in AttrTableSet |->
                      UNION {{[branch |-> t.branch, pkg_name |-> ms[i].info.pkg_name, value |-> v] :
                                v \in Range(AttrItems(ms[i], a))} : i \in 1..Len(ms)}]]

\* C6: when a store operation of the consumer's transaction (begin, clear,
\* set_branch_commit, upsert, commit) has failed, sync() has returned an
\* error, every branch of the drained group holds its prior pointer and
\* records, and the groups committed earlier are still in the store.
C6_StorageErrorRollsBackGroup ==
    hist.err \in StorageOps =>
        /\ pc = "done_err"
        /\ tx = None
        /\ \A i \in 1..Len(cons.srcinfo_batch) : Unchanged(cons.srcinfo_batch[i].branch)
        /\ \A g \in 1..Len(hist.groups) : \A i \in 1..Len(hist.groups[g]) :
             BranchState(db, hist.groups[g][i].branch) = WrittenState(hist.groups[g][i])

\* the commit of a second group failed after a first group was committed
C6_Witness ==
    /\ hist.err = "commit"
    /\ hist.groups # <<>>
    /\ db # db0
    /\ \E i \in 1..Len(cons.srcinfo_batch) :
         BranchState(db0, cons.srcinfo_batch[i].branch).pkg_info # {}

(***************************************************************************)
(* Claims about readers, checked under SpecRead.                           *)
(***************************************************************************)
\* what get_package_details returns when all its queries read one store
DetailsIn(store, names) ==
    {[info |-> r, attrs |-> [a \in AttrTableSet |-> SelectAttr(store, a, r.pkg_name, r.branch)]] :
       r \in {x \in store.pkg_info : x.pkg_name \in names}}

\* the store once sync() has written every upstream branch
StoreAfterSync == IndexOf([b \in DOMAIN db0.branch_commits \cup DOMAIN upstream |->
                             IF b \in DOMAIN upstream THEN upstream[b] ELSE db0.branch_commits[b]])

\* C7: what a finished get_package_details returns for any one branch is what
\* the store held for that branch either before or after the sync's commit:
\* the pkg_info row and the rows of the eight attribute tables of one and the
\* same state, never a mix.
C7_ReaderSeesOldOrNew ==
    rd.pc = "done" =>
        \A b \in Branches :
            LET got == {d \in Range(rd.result) : d.info.branch = b}
                of(store) == {d \in DetailsIn(store, rd.names) : d.info.branch = b}
            IN  got = of(db0) \/ got = of(StoreAfterSync)

(***************************************************************************)
(* Claims about fetch_srcinfo_batch.                                       *)
(***************************************************************************)
\* a logged request whose response is a success status with a data object
IsData(e) == e.resp.kind = "success" /\ e.resp.shape = "data"
\* ... that deserialises
SuccessData(e) == IsData(e) /\ IsSome(from_json(ResponseJson(e.body, e.resp.missing)))

\* C8: a non-success response with a numeric Retry-After of N seconds is
\* followed by a sleep of at least N + RETRY_AFTER_FINETUNING seconds and a
\* second request; when that one succeeds the call has sent exactly these
\* requests and returns the second response's data.
C8_RetryAfterSleepsThenResends ==
    \A i \in 1..Len(f_log) :
        f_log[i].resp.kind = "retry_after_secs" =>
            /\ f_pc # "panic" \/ i < Len(f_log)
            /\ IsSome(f_log[i].slept)
            /\ Unwrap(f_log[i].slept) >= f_log[i].resp.n + RETRY_AFTER_FINETUNING
            /\ (i < Len(f_log) /\ SuccessData(f_log[i + 1])) =>
                  /\ Len(f_log) = i + 1
                  /\ f_pc = "ok"
                  /\ f_result = ExtractTexts(Len(f_commits), ServerData(f_log[i + 1].body))

\* the same for a header value whose sum with the margin fits u64; it holds
C8_HoldsWhenTheSumFitsU64 ==
    \A i \in 1..Len(f_log) :
        (f_log[i].resp.kind = "retry_after_secs"
           /\ f_log[i].resp.n + RETRY_AFTER_FINETUNING < U64_MODULUS) =>
            /\ f_pc # "panic" \/ i < Len(f_log)
            /\ IsSome(f_log[i].slept)
            /\ Unwrap(f_log[i].slept) >= f_log[i].resp.n + RETRY_AFTER_FINETUNING
            /\ (i < Len(f_log) /\ SuccessData(f_log[i + 1])) =>
                  /\ Len(f_log) = i + 1
                  /\ f_pc = "ok"
                  /\ f_result = ExtractTexts(Len(f_commits), ServerData(f_log[i + 1].body))

\* C9: every request of one call, the first and each resend, carries the same
\* body: one entry per input commit, in input order, under the alias of its
\* position.
C9_EveryRequestCarriesTheSameBody ==
    \A i \in 1..Len(f_log) :
        /\ f_log[i].body = f_log[1].body
        /\ Len(f_log[i].body) = Len(f_commits)
        /\ \A k \in 1..Len(f_commits) :
             f_log[i].body[k] = [alias |-> Alias(k - 1), commit |-> f_commits[k]]

\* a call for two commits that succeeded at its third request, after two waits
C9_Witness ==
    /\ f_pc = "ok" /\ Len(f_log) = 3 /\ Len(f_commits) = 2
    /\ IsSome(f_log[1].slept) /\ IsSome(f_log[2].slept)

\* C10: a successful fetch for n commits yields n texts, the one at position i
\* being the description of the commit at position i, and every tuple the
\* producer enqueues pairs a to-process (branch, commit) with the description
\* of that commit.
C10_TextsPairWithTheirCommits ==
    /\ prod.pc = "send" =>
         LET chunk == Chunk(to_process, prod.chunk)
         IN  /\ Len(prod.data) = Len(chunk)
             /\ \A j \in 1..Len(chunk) : prod.data[j] = FetchedText(chunk[j][2])
    /\ \A i \in 1..Len(hist.enqueued) :
         LET t == hist.enqueued[i]
         IN  /\ t.srcinfo_text = FetchedText(t.commit)
             /\ \E k \in 1..Len(to_process) : to_process[k] = <<t.branch, t.commit>>

\* a batch of two commits with different descriptions, both enqueued
C10_Witness ==
    /\ Len(hist.enqueued) >= 2
    /\ hist.enqueued[1].srcinfo_text # hist.enqueued[2].srcinfo_text
    /\ {hist.enqueued[1].branch, hist.enqueued[2].branch} = ChunkBranches(1)

\* C11: when the response has no description for the commit at position i
\* (its entry is absent or has no text), the call succeeds, yields the empty
\* text at position i and every other position's text.
C11_MissingItemYieldsEmptyText ==
    \A i \in 1..Len(f_log) :
        IsData(f_log[i]) =>
            /\ f_pc = "ok"
            /\ Len(f_result) = Len(f_commits)
            /\ \A k \in 1..Len(f_commits) :
                 f_result[k] = unwrap_or(SrcinfoAt(f_commits[k]), <<>>)

\* the same for a response that leaves the alias of a missing item out; it holds
C11_HoldsWhenTheEntryIsAbsent ==
    \A i \in 1..Len(f_log) :
        (IsData(f_log[i]) /\ f_log[i].resp.missing = "absent") =>
            /\ f_pc = "ok"
            /\ Len(f_result) = Len(f_commits)
            /\ \A k \in 1..Len(f_commits) :
                 f_result[k] = unwrap_or(SrcinfoAt(f_commits[k]), <<>>)

(***************************************************************************)
(* More claims about sync().                                               *)
(***************************************************************************)
\* the (group, position) pairs of the committed groups that wrote branch b
WritesOf(b) ==
    {<<g, i>> \in (1..Len(hist.groups)) \X (1..BATCH_SIZE) :
        i <= Len(hist.groups[g]) /\ hist.groups[g][i].branch = b}

\* the branches of the group the consumer holds in an open transaction
InOpenGroup ==
    IF IsSome(tx) THEN {cons.srcinfo_batch[i].branch : i \in 1..Len(cons.srcinfo_batch)} ELSE {}

\* C12: in one pass each to-process branch is written (cleared, pointed at
\* its commit, its records inserted, committed) at most once, no other branch
\* is written, and when sync() has returned Ok every branch of a batch whose
\* fetch succeeded was written exactly once, however the drained items were
\* grouped into transactions.
C12_EachBranchWrittenOnce ==
    /\ \A b \in Branches :
         /\ Cardinality(WritesOf(b)) <= 1
         /\ WritesOf(b) # {} => b \in ToProcessBranches /\ b \notin InOpenGroup
    /\ \A i, j \in 1..Len(cons.srcinfo_batch) :
         cons.srcinfo_batch[i].branch = cons.srcinfo_batch[j].branch => i = j
    /\ pc = "done_ok" =>
         \A k \in 1..NumChunks(to_process) :
            \A b \in ChunkBranches(k) :
               Cardinality(WritesOf(b)) = (IF k \in hist.failed THEN 0 ELSE 1)

\* sync() returned Ok after three branches, fetched as batches of two and
\* one, were written in transactions of one and two
C12_Witness ==
    /\ pc = "done_ok" /\ Len(to_process) = 3 /\ hist.failed = {}
    /\ Len(hist.groups) = 2
    /\ Len(hist.groups[1]) = 1 /\ Len(hist.groups[2]) = 2

(***************************************************************************)
(* srcinfo_parse.rs: one call of ParsedSrcInfo::parse, a line at a step.   *)
(***************************************************************************)
MaxLines == 4
InputLines ==
    {KV("pkgbase", "foo"), KV("pkgname", "bar"), KV("depends", "a"), KV("depends", "b"),
     KV("url", ""), Junk("junk"), Junk("")}

ParserInit ==
    /\ \E text \in UNION {[1..n -> InputLines] : n \in 0..MaxLines} :
         parser = [IdleParser EXCEPT !.pc = "start", !.text = text]
    /\ pkg = IdlePkg /\ refs = IdleRefs /\ dbtx = IdleDbtx /\ rpc = IdleRpc

\* the early return on blank input; otherwise the trimmed, non-empty lines
ParseBegin ==
    /\ parser.pc = "start"
    /\ parser' = IF TrimIsEmpty(parser.text)
                 THEN [parser EXCEPT !.pc = "done", !.result = <<>>]
                 ELSE [parser EXCEPT !.pc = "lines", !.rest = NonEmptyLines(parser.text),
                                     !.st = ParseInit]
    /\ UNCHANGED <<svars, fvars, rd, pkg, refs, dbtx, rpc>>

\* one iteration of `for line in lines`
ParseStep ==
    /\ parser.pc = "lines" /\ parser.rest # <<>>
    /\ parser' = [parser EXCEPT !.st = ParseLine(parser.st, Head(parser.rest)),
                                !.rest = Tail(parser.rest)]
    /\ UNCHANGED <<svars, fvars, rd, pkg, refs, dbtx, rpc>>

\* after the loop: the last flush, the fallback, `result`
ParseEnd ==
    /\ parser.pc = "lines" /\ parser.rest = <<>>
    /\ parser' = [parser EXCEPT !.pc = "done", !.result = ParseFinish(parser.st)]
    /\ UNCHANGED <<svars, fvars, rd, pkg, refs, dbtx, rpc>>

NextParse ==
    \/ ParseBegin
    \/ ParseStep
    \/ ParseEnd

InitParse == ParserInit /\ SyncIdle /\ FetchIdle /\ ReaderIdle
SpecParse == InitParse /\ [][NextParse]_vars

(***************************************************************************)
(* Claims about parse, stated on the input text.                           *)
(***************************************************************************)
\* the positions of the lines `key = ...` of a text
LinesOf(text, key) == {i \in 1..Len(text) : text[i].eq /\ text[i].key = key}

\* the property keys the lines from..to of a text define
SectionKeys(text, from, to) ==
    {text[i].key : i \in {j \in from..to : text[j].eq}} \ {"pkgbase", "pkgname"}

\* the values these lines give key k, in order; an empty value gives none
SectionValues(text, from, to, k) ==
    LET ls == SelectSeq(SubSeq(text, from, to),
                        LAMBDA l : l.eq /\ l.key = k /\ l.value # "")
    IN  [i \in 1..Len(ls) |-> ls[i].value]

\* C13: for a description with one pkgbase and, after it, one pkgname, parse
\* returns one package; a key the sub-package section defines holds the
\* sub-package's values only, and a base value appears only for keys the
\* sub-package does not define.
C13_SubPackageValueWins ==
    LET text == parser.text
        bases == LinesOf(text, "pkgbase")
        names == LinesOf(text, "pkgname")
    IN  (parser.pc = "done" /\ Cardinality(bases) = 1 /\ Cardinality(names) = 1
           /\ (CHOOSE i \in bases : TRUE) < (CHOOSE i \in names : TRUE)) =>
        LET nb == CHOOSE i \in bases : TRUE
            nn == CHOOSE i \in names : TRUE
            baseKeys == SectionKeys(text, nb + 1, nn - 1)
            subKeys == SectionKeys(text, nn + 1, Len(text))
        IN  /\ Len(parser.result) = 1
            /\ parser.result[1].pkgbase = text[nb].value
            /\ parser.result[1].pkgname = text[nn].value
            /\ DOMAIN parser.result[1].properties = baseKeys \cup subKeys
            /\ \A k \in subKeys :
                 parser.result[1].properties[k] = SectionValues(text, nn + 1, Len(text), k)
            /\ \A k \in baseKeys \ subKeys :
                 parser.result[1].properties[k] = SectionValues(text, nb + 1, nn - 1, k)

\* depends = a in the base, depends = b in the sub-package: the result has b
C13_Witness ==
    /\ parser.pc = "done"
    /\ parser.text = <<KV("pkgbase", "foo"), KV("depends", "a"),
                       KV("pkgname", "bar"), KV("depends", "b")>>
    /\ Len(parser.result) = 1
    /\ parser.result[1].properties["depends"] = <<"b">>

\* C14: for an input with a pkgbase line and no pkgname line, parse returns
\* exactly one package, named as the base, with exactly the base's properties.
C14_BaseOnlyYieldsOnePackage ==
    LET text == parser.text
        bases == LinesOf(text, "pkgbase")
    IN  (parser.pc = "done" /\ bases # {} /\ LinesOf(text, "pkgname") = {}) =>
        LET nb == CHOOSE i \in bases : \A j \in bases : j <= i
            baseKeys == SectionKeys(text, nb + 1, Len(text))
        IN  /\ Len(parser.result) = 1
            /\ parser.result[1].pkgname = text[nb].value
            /\ parser.result[1].pkgbase = text[nb].value
            /\ DOMAIN parser.result[1].properties = baseKeys
            /\ \A k \in baseKeys :
                 parser.result[1].properties[k] = SectionValues(text, nb + 1, Len(text), k)

(***************************************************************************)
(* Claims about sync(), continued.                                         *)
(***************************************************************************)
\* a tuple whose description parses to no record
ZeroRecords(t) == srcinfo_to_db_models(t.branch, t.commit, t.srcinfo_text) = <<>>

\* the tuples of the committed groups
CommittedTuples ==
    {hist.groups[g][i] : <<g, i>> \in
        {x \in (1..Len(hist.groups)) \X (1..BATCH_SIZE) : x[2] <= Len(hist.groups[x[1]])}}

\* every committed zero-record tuple left its branch with the new pointer and
\* no record, so that the next diff does not list it; and a sync that returned
\* Ok has committed every zero-record tuple that was enqueued
ZeroRecordTuplesAreWritten ==
    /\ \A t \in CommittedTuples :
         ZeroRecords(t) =>
            /\ BranchState(db, t.branch) = WrittenState(t)
            /\ BranchState(db, t.branch).pkg_info = {}
            /\ ~NeedsProcessing(get_existing_commits(db), t.branch, t.commit)
    /\ pc = "done_ok" =>
         \A i \in 1..Len(hist.enqueued) :
            ZeroRecords(hist.enqueued[i]) => hist.enqueued[i] \in CommittedTuples

\* C15: a to-process branch whose description parses to zero records still
\* gets its records cleared and its pointer set in a committed transaction,
\* for every commit id, and the consumer goes on with the rest of the group:
\* it never stops at such a tuple.
C15_ZeroRecordBranchGetsPointer ==
    /\ ZeroRecordTuplesAreWritten
    /\ pc # "panicked"

\* the same, the consumer stopping only at a commit id shorter than 8; it holds
C15_HoldsForLongCommitIds ==
    /\ ZeroRecordTuplesAreWritten
    /\ pc = "panicked" =>
         /\ ZeroRecords(cons.srcinfo_batch[cons.idx])
         /\ Len(cons.srcinfo_batch[cons.idx].commit) < 8

\* C16: sync() leaves the commit pointer and every record of a branch that
\* is not in the to-process list as they were, in the store and in the view
\* of the open transaction; a branch of the store that the upstream listing
\* does not hold is such a branch.
C16_OtherBranchesUntouched ==
    /\ \A b \in Branches \ ToProcessBranches :
         /\ Unchanged(b)
         /\ IsSome(tx) => BranchState(Unwrap(tx), b) = BranchState(db0, b)
    /\ pc # "start" =>
         \A b \in DOMAIN db0.branch_commits \ DOMAIN upstream : b \notin ToProcessBranches

\* sync() returned Ok having written a branch, with a branch in the store
\* that is gone upstream and still holds its records
C16_Witness ==
    /\ pc = "done_ok" /\ hist.groups # <<>>
    /\ \E b \in DOMAIN db0.branch_commits \ DOMAIN upstream :
         /\ BranchState(db0, b).pkg_info # {}
         /\ BranchState(db, b) = BranchState(db0, b)

(***************************************************************************)
(* main.rs: the sync command run again on the same database, the upstream  *)
(* listing being the same.                                                 *)
(***************************************************************************)
MaxPasses == 2

\* `aur-mirror-meta sync` once more after a run that returned Ok: a new
\* process, the store as the last run left it
SyncAgain ==
    /\ alive /\ pc = "done_ok" /\ hist.pass < MaxPasses
    /\ pc' = "start"
    /\ to_process' = <<>> /\ chan' = <<>> /\ prod' = IdleProd /\ cons' = IdleCons
    /\ tx' = None
    /\ db0' = db
    /\ hist' = [NoHist EXCEPT !.pass = hist.pass + 1, !.prev_clean = (hist.failed = {})]
    /\ UNCHANGED <<upstream, db, alive, fvars, rd, pvars>>

NextAgain ==
    \/ StartFails
    \/ Start
    \/ FetchOk
    \/ FetchErr
    \/ FetchPanic
    \/ Send
    \/ SendFails
    \/ Recv
    \/ RecvClosed
    \/ Begin
    \/ Clear
    \/ SetCommit
    \/ Upsert
    \/ Commit
    \/ StorageError
    \/ Crash
    \/ SyncAgain

SpecAgain == Init /\ [][NextAgain]_vars

\* C17: a second sync() after one that returned Ok with no failed batch, the
\* upstream listing unchanged, is a no-op: once the listing and the stored
\* commits are read the to-process list is empty, no batch is fetched, no
\* transaction is opened, the store is unchanged, and sync() returns Ok.
C17_SecondSyncIsNoOp ==
    (hist.pass > 1 /\ hist.prev_clean) =>
        /\ to_process = <<>>
        /\ hist.fetched = <<>> /\ hist.enqueued = <<>> /\ prod = IdleProd
        /\ tx = None /\ hist.groups = <<>>
        /\ db = db0
        /\ pc \in {"start", "done_ok"} \/ (pc = "done_err" /\ hist.err = "start")
        /\ \A b \in DOMAIN upstream :
             ~NeedsProcessing(get_existing_commits(db), b, upstream[b])

\* the second sync() returned Ok on a store that the first one had changed
C17_Witness ==
    /\ hist.pass = 2 /\ hist.prev_clean /\ pc = "done_ok"
    /\ \E b \in DOMAIN upstream : get_branch_commit_id(db, b) = Some(Commit2)
    /\ \E b \in DOMAIN upstream : get_branch_commit_id(db, b) = Some(Commit3)

(***************************************************************************)
(* aur_fetcher.rs: fetch_branch_list                                       *)
(*                                                                         *)
(* A line of the response is the sequence of the pieces its text is cut    *)
(* in; the text is their concatenation.  The pieces are cut where the code *)
(* can cut: the white space at either end, the separator " refs/heads/",   *)
(* and the first four characters of what precedes the separator.           *)
(***************************************************************************)
RefSeparator == " refs/heads/"
Oid1Head == "1671"
Oid1Tail == "c778dfeab04b64686baf782c5baa2d96b2ec"

RECURSIVE Join(_)
Join(pieces) == IF pieces = <<>> THEN "" ELSE Head(pieces) \o Join(Tail(pieces))

RECURSIVE CharLen(_)
CharLen(pieces) == IF pieces = <<>> THEN 0 ELSE Len(Head(pieces)) + CharLen(Tail(pieces))

\* .trim_ascii()
RECURSIVE TrimStart(_)
TrimStart(pieces) ==
    IF pieces # <<>> /\ Head(pieces) = " " THEN TrimStart(Tail(pieces)) ELSE pieces
RECURSIVE TrimEnd(_)
TrimEnd(pieces) ==
    IF pieces # <<>> /\ pieces[Len(pieces)] = " "
    THEN TrimEnd(SubSeq(pieces, 1, Len(pieces) - 1)) ELSE pieces
trim_ascii(pieces) == TrimEnd(TrimStart(pieces))

\* .split_once(" refs/heads/"): None, or what precedes and follows the first
\* occurrence
split_once(pieces, sep) ==
    LET at == {i \in 1..Len(pieces) : pieces[i] = sep}
    IN  IF at = {} THEN None
        ELSE LET k == CHOOSE i \in at : \A j \in at : i <= j
             IN  Some(<<SubSeq(pieces, 1, k - 1), SubSeq(pieces, k + 1, Len(pieces))>>)

\* &s[n..] of a text whose pieces are cut at n
RECURSIVE SliceFrom(_, _)
SliceFrom(pieces, n) ==
    IF n = 0 \/ pieces = <<>> THEN pieces
    ELSE CASE Len(Head(pieces)) <= n -> SliceFrom(Tail(pieces), n - Len(Head(pieces)))

\* faulty variant: the length prefix stays in the commit id
ref_line_keeping_prefix(branches, line) ==
    LET split == split_once(trim_ascii(line), RefSeparator)
    IN  IF IsSome(split) /\ CharLen(Unwrap(split)[1]) >= 4
        THEN LET commit_id == Join(Unwrap(split)[1])
                 branch_name == Join(Unwrap(split)[2])
             IN  IF branch_name # "main"
                 THEN [b \in DOMAIN branches \cup {branch_name} |->
                         IF b = branch_name THEN commit_id ELSE branches[b]]
                 ELSE branches
        ELSE branches

\* the body of the receiving loop: what one line makes of the map
ref_line(branches, line) ==
    LET split == split_once(trim_ascii(line), RefSeparator)
    IN  IF IsSome(split) /\ CharLen(Unwrap(split)[1]) >= 4
        THEN LET commit_id == Join(SliceFrom(Unwrap(split)[1], 4))
                 branch_name == Join(Unwrap(split)[2])
             IN  IF branch_name # "main"
                 THEN [b \in DOMAIN branches \cup {branch_name} |->
                         IF b = branch_name THEN commit_id ELSE branches[b]]
                 ELSE branches
        ELSE branches

MaxRefLines == 3

\* lines a ref advertisement can hold
RefLineInputs ==
    {<<"003d", Oid1Head, Oid1Tail, RefSeparator, "paru">>,   \* the ref of a branch
     <<"003d", Commit2, RefSeparator, "paru">>,              \* the same branch, elsewhere
     <<"003d", Commit2, RefSeparator, "main">>,
     <<"003c", Commit2, RefSeparator, "yay", " ">>,          \* white space at the end
     <<"0000", "0156", Commit3, " HEAD">>,                   \* not a branch
     <<"0000">>,                                             \* flush packet
     <<>>,                                                   \* what follows the last newline
     <<"003d", ShortCommit, RefSeparator, "zsh">>,           \* a short object id
     <<ShortCommit, RefSeparator, "zsh">>,                   \* fewer than 4 characters
     <<Oid1Head, Oid1Tail, RefSeparator, "paru">>}           \* no length prefix

RefsInit ==
    /\ \E lines \in UNION {[1..n -> RefLineInputs] : n \in 0..MaxRefLines} :
         refs = [IdleRefs EXCEPT !.pc = "request", !.lines = lines]
    /\ parser = IdleParser /\ pkg = IdlePkg /\ dbtx = IdleDbtx /\ rpc = IdleRpc

\* request_builder.send().await? fails, or the status is not a success
RefsRequestFails ==
    /\ refs.pc = "request"
    /\ \E err \in {"send", "status"} : refs' = [refs EXCEPT !.pc = "err", !.err = err]
    /\ UNCHANGED <<svars, fvars, rd, parser, pkg, dbtx, rpc>>

\* a success status: the decoding task is spawned, the loop starts
RefsRequestOk ==
    /\ refs.pc = "request"
    /\ refs' = [refs EXCEPT !.pc = "lines"]
    /\ UNCHANGED <<svars, fvars, rd, parser, pkg, dbtx, rpc>>

\* rx.recv() returns the next line
RefLine ==
    /\ refs.pc = "lines" /\ refs.i < Len(refs.lines)
    /\ refs' = [refs EXCEPT !.i = @ + 1,
                            !.branches = ref_line(@, refs.lines[refs.i + 1])]
    /\ UNCHANGED <<svars, fvars, rd, parser, pkg, dbtx, rpc>>

\* rx.recv() returns None after the last line: Ok(branches)
RefsEof ==
    /\ refs.pc = "lines" /\ refs.i = Len(refs.lines)
    /\ refs' = [refs EXCEPT !.pc = "ok"]
    /\ UNCHANGED <<svars, fvars, rd, parser, pkg, dbtx, rpc>>

\* response.chunk() returns Err: expect() panics in the decoding task, the
\* sender is dropped, rx.recv() returns None after the lines sent so far
RefsBodyError ==
    /\ refs.pc = "lines" /\ refs.i < Len(refs.lines)
    /\ refs' = [refs EXCEPT !.pc = "ok", !.err = "body"]
    /\ UNCHANGED <<svars, fvars, rd, parser, pkg, dbtx, rpc>>

NextRefs ==
    \/ RefsRequestFails
    \/ RefsRequestOk
    \/ RefLine
    \/ RefsEof
    \/ RefsBodyError

InitRefs == RefsInit /\ SyncIdle /\ FetchIdle /\ ReaderIdle
SpecRefs == InitRefs /\ [][NextRefs]_vars

\* a line <4-character length prefix><40-character object id> refs/heads/<branch>
WellFormedRef(l) ==
    /\ Len(l) >= 4
    /\ Len(l[1]) = 4
    /\ l[Len(l) - 1] = RefSeparator
    /\ \A i \in 1..(Len(l) - 2) : l[i] # RefSeparator
    /\ CharLen(SubSeq(l, 2, Len(l) - 2)) = 40

\* C18: a ref line <4-character prefix><object id> refs/heads/<branch> gives
\* the entry branch -> object id, the prefix removed (as long as no later
\* line names the branch again), and the map never holds the branch main.
C18_RefLineGivesBranchToObjectId ==
    /\ "main" \notin DOMAIN refs.branches
    /\ \A j \in 1..refs.i :
         LET l == refs.lines[j]
             branch == l[Len(l)]
         IN  (WellFormedRef(l) /\ branch # "main"
                /\ \A k \in (j + 1)..refs.i : branch \notin Range(refs.lines[k])) =>
             /\ branch \in DOMAIN refs.branches
             /\ refs.branches[branch] = Join(SubSeq(l, 2, Len(l) - 2))

\* "003d1671c778dfeab04b64686baf782c5baa2d96b2ec refs/heads/paru" and a line
\* of refs/heads/main were read: the map is paru -> 1671c778...
C18_Witness ==
    /\ refs.pc = "ok" /\ refs.err = ""
    /\ refs.lines = <<<<"003d", Commit2, RefSeparator, "main">>,
                      <<"003d", Oid1Head, Oid1Tail, RefSeparator, "paru">>>>
    /\ refs.branches = [b \in {"paru"} |-> Commit1]

(***************************************************************************)
(* srcinfo_parse.rs: the methods of one ParsedSrcInfo.                     *)
(***************************************************************************)
MaxValues == 2

\* the order of the values that sorted_unstable() sorts by
ValueOrder == <<"a", "b", "c", "d", "m">>
str_lt(x, y) ==
    (CHOOSE i \in 1..Len(ValueOrder) : ValueOrder[i] = x)
        < (CHOOSE i \in 1..Len(ValueOrder) : ValueOrder[i] = y)

\* .flat_map(|(_, values)| values) over the keys in the order given
RECURSIVE flat_map(_, _)
flat_map(properties, keys) ==
    IF keys = <<>> THEN <<>>
    ELSE properties[Head(keys)] \o flat_map(properties, Tail(keys))

\* .dedup(): consecutive equal items become one
RECURSIVE dedup(_)
dedup(s) ==
    IF Len(s) <= 1 THEN s
    ELSE IF s[1] = s[2] THEN dedup(Tail(s)) ELSE <<s[1]>> \o dedup(Tail(s))

\* a sequence holding each element of a set once

\* faulty variant: no dedup()
flatten_arch_prop_vec_all(this, k) ==
    LET keys == {key \in DOMAIN this.properties : key = k \/ starts_with(key, k \o "_")}
    IN  SortSeq(flat_map(this.properties, SeqOf(keys)), str_lt)

\* flatten_arch_prop as the Vec it returns: filter the keys, flatten, sort, dedup
flatten_arch_prop_vec(this, k) ==
    LET keys == {key \in DOMAIN this.properties : key = k \/ starts_with(key, k \o "_")}
    IN  dedup(SortSeq(flat_map(this.properties, SeqOf(keys)), str_lt))

\* value lists of at most MaxValues values
Lists(values) == UNION {[1..n -> values] : n \in 0..MaxValues}

\* properties over the given keys, each key absent or holding a list
PropertyMaps(keys, values) ==
    UNION {[ks -> Lists(values)] : ks \in SUBSET keys}

DependsKeys == {"depends", "depends_x86_64", "depends_i686", "makedepends"}
VersionKeys == {"epoch", "pkgver", "pkgrel"}

PkgInit ==
    /\ \E props \in PropertyMaps(DependsKeys, {"a", "b"})
                      \cup PropertyMaps(VersionKeys, {"1.0", "2", "3"}) :
         pkg = [IdlePkg EXCEPT !.pc = "made", !.properties = props]
    /\ parser = IdleParser /\ refs = IdleRefs /\ dbtx = IdleDbtx /\ rpc = IdleRpc

\* pkg.flatten_arch_prop(k)
Flatten ==
    /\ pkg.pc = "made"
    /\ \E k \in {"depends", "makedepends"} :
         pkg' = [pkg EXCEPT !.flat = [x \in {k} |-> flatten_arch_prop_vec(pkg, k)]]
    /\ UNCHANGED <<svars, fvars, rd, parser, refs, dbtx, rpc>>

\* pkg.version()
Version ==
    /\ pkg.pc = "made"
    /\ pkg' = [pkg EXCEPT !.version = version(pkg)]
    /\ UNCHANGED <<svars, fvars, rd, parser, refs, dbtx, rpc>>

NextPkg ==
    \/ Flatten
    \/ Version

InitPkg == PkgInit /\ SyncIdle /\ FetchIdle /\ ReaderIdle
SpecPkg == InitPkg /\ [][NextPkg]_vars

\* the values of a package's properties under k and under k_<architecture>
ArchValues(properties, k) ==
    UNION {Range(properties[key]) :
             key \in DOMAIN properties \cap {k, k \o "_x86_64", k \o "_i686"}}

\* C19: flatten_arch_prop(k) returns the values stored under k and under the
\* keys that start with k and an underscore, each value exactly once; the
\* values of a key that merely contains k (makedepends for depends) are not
\* in it.  {depends: [a], depends_x86_64: [b], depends_i686: [a]} gives a, b.
C19_FlattenIsDeduplicatedUnion ==
    \A k \in DOMAIN pkg.flat :
        LET got == pkg.flat[k] IN
        /\ Range(got) = ArchValues(pkg.properties, k)
        /\ \A i, j \in 1..Len(got) : got[i] = got[j] => i = j
        /\ (k = "depends" /\ pkg.properties = [x \in {"depends", "depends_x86_64", "depends_i686"} |->
                                                IF x = "depends_x86_64" THEN <<"b">> ELSE <<"a">>])
               => got = <<"a", "b">>
        /\ (k = "depends" /\ DOMAIN pkg.properties = {"makedepends"}) => got = <<>>

\* depends was flattened for {depends: [a], depends_x86_64: [b],
\* depends_i686: [a], makedepends: [b, b]}
C19_Witness ==
    /\ "depends" \in DOMAIN pkg.flat
    /\ pkg.properties = [x \in DependsKeys |->
                           CASE x = "depends_x86_64" -> <<"b">>
                             [] x = "makedepends" -> <<"b", "b">>
                             [] OTHER -> <<"a">>]
    /\ pkg.flat["depends"] = <<"a", "b">>

\* a property that has a value
HasValue(k) == k \in DOMAIN pkg.properties /\ pkg.properties[k] # <<>>

\* C20: version() is "{pkgver}-{pkgrel}" of the first value of each property,
\* with "0.0.1" for a missing pkgver and "1" for a missing pkgrel, prefixed
\* with "{epoch}:" when there is an epoch: epoch 2, pkgver 1.0, pkgrel 3 give
\* "2:1.0-3", without the epoch "1.0-3", with none of the three "0.0.1-1".
C20_VersionFormat ==
    pkg.version # "" =>
        LET pkgver == IF HasValue("pkgver") THEN pkg.properties["pkgver"][1] ELSE "0.0.1"
            pkgrel == IF HasValue("pkgrel") THEN pkg.properties["pkgrel"][1] ELSE "1"
            epoch == IF HasValue("epoch") THEN pkg.properties["epoch"][1] \o ":" ELSE ""
        IN  /\ pkg.version = epoch \o pkgver \o "-" \o pkgrel
            /\ pkg.properties = [x \in VersionKeys |->
                                   CASE x = "epoch" -> <<"2">>
                                     [] x = "pkgver" -> <<"1.0">>
                                     [] x = "pkgrel" -> <<"3">>]
                 => pkg.version = "2:1.0-3"
            /\ pkg.properties = [x \in {"pkgver", "pkgrel"} |->
                                   IF x = "pkgver" THEN <<"1.0">> ELSE <<"3">>]
                 => pkg.version = "1.0-3"
            /\ DOMAIN pkg.properties \cap VersionKeys = {} => pkg.version = "0.0.1-1"

\* version() returned "2:1.0-3" for a package whose pkgver holds 1.0 and then 2
C20_Witness ==
    /\ pkg.version = "2:1.0-3"
    /\ pkg.properties = [x \in VersionKeys |->
                           CASE x = "epoch" -> <<"2">>
                             [] x = "pkgver" -> <<"1.0", "2">>
                             [] x = "pkgrel" -> <<"3">>]

(***************************************************************************)
(* More claims about fetch_srcinfo_batch.                                  *)
(***************************************************************************)
\* C21: a non-success response with neither a Retry-After header nor
\* x-ratelimit-remaining: 0 ends the call with an error: it is the last
\* response of the call, nothing is slept and nothing is returned.
C21_OtherStatusFailsAtOnce ==
    \A i \in 1..Len(f_log) :
        f_log[i].resp.kind = "status" =>
            /\ i = Len(f_log)
            /\ f_pc = "err"
            /\ f_log[i].slept = None
            /\ f_result = <<>>

\* the call failed on such a response to its first request, and on one to a
\* resend
C21_Witness ==
    /\ f_pc = "err" /\ Len(f_log) = 2
    /\ f_log[1].resp.kind = "rate_limited"
    /\ f_log[2].resp.kind = "status"

\* C23: on a non-success response with x-ratelimit-remaining: 0 and reset
\* time T the call sleeps (T - now) + F seconds before it resends, for every
\* T, also one before now and a missing header (T = now): the wait never
\* wraps and is at least F, and the computation never fails.
C23_RateLimitWaitIsResetPlusMargin ==
    \A i \in 1..Len(f_log) :
        f_log[i].resp.kind = "rate_limited" =>
            LET T == unwrap_or(f_log[i].resp.reset, f_log[i].resp.now)
                now == f_log[i].resp.now
            IN  /\ f_pc # "panic" \/ i < Len(f_log)
                /\ IsSome(f_log[i].slept)
                /\ Unwrap(f_log[i].slept) >= RETRY_AFTER_FINETUNING
                /\ T >= now => Unwrap(f_log[i].slept) = (T - now) + RETRY_AFTER_FINETUNING

\* the same for a reset time that is not before now and a sum that fits u64;
\* it holds
C23_HoldsWhenResetIsNotInThePast ==
    \A i \in 1..Len(f_log) :
        (f_log[i].resp.kind = "rate_limited"
           /\ unwrap_or(f_log[i].resp.reset, f_log[i].resp.now) >= f_log[i].resp.now
           /\ unwrap_or(f_log[i].resp.reset, f_log[i].resp.now) - f_log[i].resp.now
                 + RETRY_AFTER_FINETUNING < U64_MODULUS) =>
            /\ f_pc # "panic" \/ i < Len(f_log)
            /\ IsSome(f_log[i].slept)
            /\ Unwrap(f_log[i].slept) =
                 unwrap_or(f_log[i].resp.reset, f_log[i].resp.now) - f_log[i].resp.now
                    + RETRY_AFTER_FINETUNING

\* C24: every resend is preceded by a sleep of at least F seconds after the
\* response that caused it, whatever the retry signal was.
C24_EveryResendFollowsASleep ==
    \A i \in 1..(Len(f_log) - 1) :
        /\ IsSome(f_log[i].slept)
        /\ Unwrap(f_log[i].slept) >= RETRY_AFTER_FINETUNING

\* the same for the resends after a Retry-After number or a rate-limit reset
\* whose sum with the margin neither underflows nor overflows; it holds
C24_HoldsForWaitsThatFitU64 ==
    \A i \in 1..(Len(f_log) - 1) :
        LET e == f_log[i].resp IN
        (\/ e.kind = "retry_after_secs" /\ e.n + RETRY_AFTER_FINETUNING < U64_MODULUS
         \/ /\ e.kind = "rate_limited"
            /\ unwrap_or(e.reset, e.now) >= e.now
            /\ unwrap_or(e.reset, e.now) - e.now + RETRY_AFTER_FINETUNING < U64_MODULUS) =>
            /\ IsSome(f_log[i].slept)
            /\ Unwrap(f_log[i].slept) >= RETRY_AFTER_FINETUNING

\* C29: a success-status response with a top-level errors field, or without
\* a data field, fails the whole call: it is the last response, the call
\* returns an error and no description.
C29_ErrorsOrNoDataFailTheCall ==
    \A i \in 1..Len(f_log) :
        (f_log[i].resp.kind = "success" /\ f_log[i].resp.shape \in {"errors", "no_data"}) =>
            /\ i = Len(f_log)
            /\ f_pc = "err"
            /\ f_result = <<>>

\* a call for a commit that has a description failed on a response with errors
C29_Witness ==
    /\ f_pc = "err" /\ f_commits = <<Commit1>>
    /\ Len(f_log) = 1
    /\ f_log[1].resp.kind = "success" /\ f_log[1].resp.shape = "errors"

(***************************************************************************)
(* More claims about parse.                                                *)
(***************************************************************************)
\* the lines of a text that hold a '='
KeyValueLines(text) == SelectSeq(text, LAMBDA l : l.eq)

\* C22: parse returns no package for an empty or blank input; for every
\* input it runs to its end and returns packages; lines without '=' change
\* nothing (the result is that of the text without them) and unknown keys
\* are kept as properties.
C22_ParseToleratesAnyInput ==
    /\ parser.pc \in {"start", "lines", "done"}
    /\ parser.pc = "done" =>
         /\ (\A i \in 1..Len(parser.text) : parser.text[i] = Junk("")) => parser.result = <<>>
         /\ parser.result = parse(KeyValueLines(parser.text))
         /\ \A i \in 1..Len(parser.result) :
              /\ parser.result[i].pkgname \in
                   {parser.text[j].value : j \in LinesOf(parser.text, "pkgname")}
              /\ DOMAIN parser.result[i].properties \subseteq
                   SectionKeys(parser.text, 1, Len(parser.text))

\* parse returned a package for a text with a line without '=' and a key it
\* does not know
C22_Witness ==
    /\ parser.pc = "done"
    /\ parser.text = <<KV("pkgbase", "foo"), KV("pkgname", "bar"), Junk("junk"), KV("url", "")>>
    /\ Len(parser.result) = 1
    /\ DOMAIN parser.result[1].properties = {"url"}

(***************************************************************************)
(* Claims about the producer and the consumer of sync().                   *)
(***************************************************************************)
\* C25: once the consumer has left sync() on a storage error the producer
\* issues no batched fetch for any remaining batch.
C25_ProducerStopsAfterAbort ==
    [][(hist.err \in StorageOps /\ pc = "done_err") =>
          ~(prod'.pc = "fetch" /\ prod'.chunk # prod.chunk)]_vars

\* the tuples of the groups committed so far, in the order of their writes
RECURSIVE Concat(_)
Concat(groups) == IF groups = <<>> THEN <<>> ELSE Head(groups) \o Concat(Tail(groups))

\* every tuple the consumer has taken from the channel, in the order it
\* took them: the committed groups, then the group it is working on (or
\* was working on when it left)
Received ==
    Concat(hist.groups) \o
        (IF pc \in {"begin", "clear", "set_commit", "upsert", "commit", "done_err", "panicked"}
         THEN cons.srcinfo_batch ELSE <<>>)

\* the place of a tuple in the to-process list
PosInToProcess(t) ==
    CHOOSE i \in 1..Len(to_process) : to_process[i] = <<t.branch, t.commit>>

ChunkOfPos(i) == (i + BATCH_SIZE - 1) \div BATCH_SIZE

\* C26: what the consumer took, followed by what is still in the channel,
\* is exactly what the producer enqueued, in that order; the enqueued
\* tuples follow the order of the to-process list and leave out the failed
\* batches only; a group is written from its first tuple to its last.
C26_ChannelKeepsOrder ==
    /\ Received \o chan = hist.enqueued
    /\ \A i \in 1..Len(hist.enqueued) :
         /\ \E n \in 1..Len(to_process) :
              to_process[n] = <<hist.enqueued[i].branch, hist.enqueued[i].commit>>
         /\ ChunkOfPos(PosInToProcess(hist.enqueued[i])) \notin hist.failed
         /\ \A j \in 1..Len(hist.enqueued) :
              i < j => PosInToProcess(hist.enqueued[i]) < PosInToProcess(hist.enqueued[j])
    /\ pc = "done_ok" =>
         /\ Concat(hist.groups) = hist.enqueued
         /\ \A n \in 1..Len(to_process) :
              ChunkOfPos(n) \notin hist.failed =>
                 \E i \in 1..Len(hist.enqueued) :
                    <<hist.enqueued[i].branch, hist.enqueued[i].commit>> = to_process[n]
    /\ pc \in {"clear", "set_commit"} =>
         cons.idx \in 1..Len(cons.srcinfo_batch)

\* three tuples of two batches went through the channel and were written
\* in at least two groups
C26_Witness ==
    /\ pc = "done_ok"
    /\ Len(hist.enqueued) = 3
    /\ Len(hist.groups) >= 2
    /\ hist.failed = {}

(***************************************************************************)
(* sync() of an empty mirror against an upstream with more new branches   *)
(* than the channel holds, from the spawn of fetch_task on, and the       *)
(* scheduling of its two tasks.  The branches differ in name only, so one *)
(* order of the to-process list stands for all.                           *)
(***************************************************************************)
BacklogBranches == <<"bat", "fd", "git", "jq", "vim", "zsh">>

InitBacklog ==
    /\ upstream = [b \in {BacklogBranches[i] : i \in DOMAIN BacklogBranches} |-> Commit2]
    /\ db = EmptyStore
    /\ db0 = db
    /\ tx = None
    /\ pc = "recv"
    /\ to_process = [i \in DOMAIN BacklogBranches |-> <<BacklogBranches[i], Commit2>>]
    /\ chan = <<>>
    /\ prod = [IdleProd EXCEPT !.pc = "fetch", !.chunk = 1]
    /\ cons = IdleCons
    /\ alive = TRUE
    /\ hist = NoHist
    /\ FetchIdle /\ ReaderIdle /\ PureIdle

\* the steps of the spawned fetch_task
Producer == FetchOk \/ FetchErr \/ FetchPanic \/ Send \/ SendFails

\* the steps of the receive loop of sync()
Consumer ==
    \/ Recv \/ RecvClosed
    \/ Begin \/ Clear \/ SetCommit \/ Upsert \/ Commit \/ StorageError

NextBacklog ==
    \/ FetchOk
    \/ FetchErr
    \/ FetchPanic
    \/ Send
    \/ SendFails
    \/ Recv
    \/ RecvClosed
    \/ Begin
    \/ Clear
    \/ SetCommit
    \/ Upsert
    \/ Commit
    \/ StorageError
    \/ Crash

SpecBacklog == InitBacklog /\ [][NextBacklog]_vars

\* a step of the receive loop is possible: the guards of its actions
ConsumerCanStep ==
    alive /\ (\/ pc \in {"begin", "clear", "set_commit", "upsert", "commit"}
              \/ pc = "recv" /\ (chan # <<>> \/ SenderDropped))

\* weak fairness of the receive loop, WF_vars(Consumer), written out with
\* the enabling condition above
ConsumerFair == []<>(~ConsumerCanStep) \/ []<><<Consumer>>_vars

\* the runtime polls every task that can make progress; an upstream call
\* returns at last (FetchOk, FetchErr or FetchPanic)
SpecLive == SpecBacklog /\ WF_vars(Producer) /\ ConsumerFair

\* every tuple of batch k has been enqueued
BatchEnqueued(k) ==
    \A n \in 1..Len(to_process) :
       ChunkOfPos(n) = k =>
          \E i \in 1..Len(hist.enqueued) :
             <<hist.enqueued[i].branch, hist.enqueued[i].commit>> = to_process[n]

\* the producer has requested batch k + 1 only after batch k was enqueued
\* whole (a batch whose fetch failed has no tuples)
RequestsFollowEnqueues ==
    prod.pc \in {"fetch", "send"} =>
       \A k \in 1..(prod.chunk - 1) : k \notin hist.failed => BatchEnqueued(k)

\* a send on a full channel leaves the producer where it is
FullChannelBlocksTheProducer ==
    (Len(chan) = ChannelCapacity /\ prod.pc = "send" /\ ~ReceiverDropped) => prod' = prod

\* C27: the channel never holds more than 2 * BATCH_SIZE tuples, a send on
\* a full channel waits for the consumer, and the producer requests batch
\* k + 1 only after every tuple of batch k has been enqueued.
C27_Backpressure ==
    /\ [](Len(chan) <= ChannelCapacity)
    /\ [][FullChannelBlocksTheProducer]_vars
    /\ []RequestsFollowEnqueues

\* the same, as long as the consumer has not left sync() with an error
C27_HoldsWhileTheConsumerLives ==
    /\ [](Len(chan) <= ChannelCapacity)
    /\ [][FullChannelBlocksTheProducer]_vars
    /\ [](~ReceiverDropped => RequestsFollowEnqueues)

\* the producer waits with a tuple in its hand at a full channel
C27_FullChannelReached ==
    Len(chan) = ChannelCapacity /\ prod.pc = "send" /\ ~ReceiverDropped

\* sync() has returned (or panicked) and fetch_task has ended
SyncOver ==
    /\ pc \in {"done_ok", "done_err", "panicked"}
    /\ prod.pc \in {"done", "panicked"}

\* C28: when every upstream call returns at last and both tasks are
\* scheduled, sync() ends and so does fetch_task, whether batches failed,
\* the channel was full or the consumer left early; only the death of the
\* process ends it otherwise.
C28_SyncTerminates == <>(~alive \/ SyncOver)

\* sync() returned Ok after the producer closed the channel although a
\* batch had failed, and the channel was drained
C28_Witness ==
    /\ alive /\ pc = "done_ok" /\ prod.pc = "done"
    /\ hist.failed # {} /\ hist.enqueued # <<>>
    /\ chan = <<>>

\* the consumer left on a storage error while the producer waited at a
\* full channel, and the producer still came to its end
C28_ProducerEndsAfterAbortAtFullChannel ==
    (alive /\ Len(chan) = ChannelCapacity /\ prod.pc = "send" /\ ReceiverDropped)
       ~> (~alive \/ prod.pc = "done")

(***************************************************************************)
(* Claims about malformed ref lines.                                       *)
(***************************************************************************)
\* the lines read so far
LinesRead == {refs.lines[j] : j \in 1..refs.i}

\* C30: a line that is not <4-character prefix><40-character object id>
\* refs/heads/<branch> contributes no entry and does not fail the call (the
\* call fails before the first line or not at all), so every commit id of
\* the map has 40 characters and every entry comes from a well-formed line.
C30_MalformedLinesAreSkipped ==
    /\ refs.pc = "err" => refs.i = 0
    /\ \A b \in DOMAIN refs.branches :
         /\ Len(refs.branches[b]) = 40
         /\ \E l \in LinesRead :
              /\ WellFormedRef(l)
              /\ l[Len(l)] = b
              /\ refs.branches[b] = Join(SubSeq(l, 2, Len(l) - 2))

\* what the code does skip: a line without " refs/heads/", or with fewer
\* than 4 characters before it, contributes no entry and fails nothing
C30_LinesWithoutARefAreSkipped ==
    /\ refs.pc = "err" => refs.i = 0
    /\ \A b \in DOMAIN refs.branches :
         \E l \in LinesRead :
            LET split == split_once(trim_ascii(l), RefSeparator)
            IN  /\ IsSome(split)
                /\ CharLen(Unwrap(split)[1]) >= 4
                /\ Join(Unwrap(split)[2]) = b

\* C31: when the status is not a success, or the body cannot be read to
\* its end, fetch_branch_list returns an error and never Ok with the
\* branches read so far.
C31_FailedListingGivesAnError ==
    refs.err \in {"status", "body"} => refs.pc = "err"

\* the part that holds: a failed request or a non-success status gives an
\* error before any line is read, with an empty map
C31_FailedRequestGivesAnError ==
    refs.err \in {"send", "status"} =>
       refs.pc = "err" /\ refs.i = 0 /\ DOMAIN refs.branches = {}

\* the body broke off after a line was read and Ok(branches) was returned
\* with the entry of that line
C31_PartialMapReturned ==
    /\ refs.pc = "ok" /\ refs.err = "body"
    /\ refs.i < Len(refs.lines)
    /\ DOMAIN refs.branches # {}

(***************************************************************************)
(* srcinfo_parse.rs: parse on descriptions with several bases and          *)
(* sub-packages.                                                           *)
(***************************************************************************)
MaxSectionLines == 5
SectionLines ==
    {KV("pkgbase", "foo"), KV("pkgbase", "baz"), KV("pkgname", "bar"), KV("pkgname", "qux"),
     KV("depends", "a"), KV("depends", "")}

SectionsInit ==
    /\ \E text \in UNION {[1..n -> SectionLines] : n \in 0..MaxSectionLines} :
         parser = [IdleParser EXCEPT !.pc = "start", !.text = text]
    /\ pkg = IdlePkg /\ refs = IdleRefs /\ dbtx = IdleDbtx /\ rpc = IdleRpc

InitSections == SectionsInit /\ SyncIdle /\ FetchIdle /\ ReaderIdle
SpecSections == InitSections /\ [][NextParse]_vars

(***************************************************************************)
(* Claims about the sections of a description, stated on the input text.  *)
(***************************************************************************)
\* the lines the loop has gone through
Consumed ==
    LET ls == NonEmptyLines(parser.text)
    IN  IF parser.pc = "lines" THEN SubSeq(ls, 1, Len(ls) - Len(parser.rest))
        ELSE IF parser.pc = "done" THEN ls
        ELSE <<>>

\* the pkgname lines of a text that have a pkgbase line before them
ValidNames(text) ==
    {i \in LinesOf(text, "pkgname") : \E b \in LinesOf(text, "pkgbase") : b < i}

\* the n-th of them
NthName(text, n) ==
    CHOOSE i \in ValidNames(text) : Cardinality({j \in ValidNames(text) : j <= i}) = n

\* the last pkgbase line before line i
BaseOf(text, i) ==
    CHOOSE b \in LinesOf(text, "pkgbase") :
        b < i /\ \A c \in LinesOf(text, "pkgbase") : c < i => c <= b

\* the last line of the section that the pkgbase or pkgname line i opens
SectionEnd(text, i) ==
    LET later == {j \in LinesOf(text, "pkgbase") \cup LinesOf(text, "pkgname") : j > i}
    IN  IF later = {} THEN Len(text)
        ELSE (CHOOSE j \in later : \A k \in later : j <= k) - 1

OwnKeys(text, i) == SectionKeys(text, i + 1, SectionEnd(text, i))
OwnValues(text, i, k) == SectionValues(text, i + 1, SectionEnd(text, i), k)

\* the package that the pkgname line i of a text stands for
ExpectedPackage(text, i) ==
    LET b == BaseOf(text, i)
    IN  [pkgbase |-> text[b].value,
         pkgname |-> text[i].value,
         properties |->
            [k \in OwnKeys(text, i) \cup OwnKeys(text, b) |->
                IF k \in OwnKeys(text, i) THEN OwnValues(text, i, k)
                ELSE OwnValues(text, b, k)]]

\* the packages that the lines gone through have closed so far are the
\* expected ones, in the order of their pkgname lines
ClosedPackagesAre(text, count) ==
    /\ Len(parser.st.result) = count
    /\ \A n \in 1..count : parser.st.result[n] = ExpectedPackage(text, NthName(text, n))

\* C32: right after a pkgbase line no sub-package is open, the sub-package
\* that was open has been appended merged with the base open before the
\* line (keys absent from the sub-package only), and the new base has no
\* properties; in the result a sub-package of a later base holds its own
\* properties and those of its own base, none of an earlier base.
C32_NewBaseFlushesAndStartsEmpty ==
    LET text == Consumed
        last == Len(text)
    IN  /\ (parser.pc = "lines" /\ last \in LinesOf(text, "pkgbase")) =>
             /\ parser.st.current_pkg = None
             /\ parser.st.current_base =
                   Some([pkgbase |-> text[last].value, properties |-> EmptyMap])
             /\ ClosedPackagesAre(text, Cardinality(ValidNames(text)))
        /\ parser.pc = "done" =>
             \A n \in 1..Cardinality(ValidNames(text)) :
                LET i == NthName(text, n)
                IN  Cardinality({b \in LinesOf(text, "pkgbase") : b < i}) >= 2 =>
                       /\ n <= Len(parser.result)
                       /\ parser.result[n] = ExpectedPackage(text, i)

\* foo has depends = a and the sub-package bar; the later base baz has the
\* sub-package qux: bar inherits a, qux inherits nothing
C32_Witness ==
    /\ parser.pc = "done"
    /\ parser.text = <<KV("pkgbase", "foo"), KV("depends", "a"), KV("pkgname", "bar"),
                       KV("pkgbase", "baz"), KV("pkgname", "qux")>>
    /\ Len(parser.result) = 2
    /\ parser.result[1].properties = [k \in {"depends"} |-> <<"a">>]
    /\ parser.result[2] = [pkgbase |-> "baz", pkgname |-> "qux", properties |-> EmptyMap]

\* C33: before the first pkgbase line no line changes the parser state;
\* right after a pkgname line with a base open, the sub-package open before
\* has been appended merged with the base and the new one is open with no
\* properties; the result holds one package per pkgname line that has a
\* pkgbase line before it, in the order of these lines.
C33_NameLinesOpenSubPackages ==
    LET text == Consumed
        last == Len(text)
        names == Cardinality(ValidNames(text))
    IN  /\ (parser.pc = "lines" /\ LinesOf(text, "pkgbase") = {}) => parser.st = ParseInit
        /\ (parser.pc = "lines" /\ last \in ValidNames(text)) =>
             /\ parser.st.current_pkg =
                   Some([pkgbase |-> text[BaseOf(text, last)].value,
                         pkgname |-> text[last].value,
                         properties |-> EmptyMap])
             /\ ClosedPackagesAre(text, names - 1)
        /\ parser.pc = "done" =>
             /\ Len(parser.result) = names
             /\ \A n \in 1..names :
                  /\ parser.result[n].pkgname = text[NthName(text, n)].value
                  /\ parser.result[n].pkgbase = text[BaseOf(text, NthName(text, n))].value

\* a pkgname line and a property line before any base, then the base foo
\* with the sub-packages bar and qux: two packages, bar first
C33_Witness ==
    /\ parser.pc = "done"
    /\ parser.text = <<KV("pkgname", "qux"), KV("depends", "a"), KV("pkgbase", "foo"),
                       KV("pkgname", "bar"), KV("pkgname", "qux")>>
    /\ parser.result = <<[pkgbase |-> "foo", pkgname |-> "bar", properties |-> EmptyMap],
                         [pkgbase |-> "foo", pkgname |-> "qux", properties |-> EmptyMap]>>

\* C34: a line `key =` with an empty value records the key in the open
\* sub-package, or else in the open base, and appends no value; a key that
\* a sub-package has with zero values stays with zero values in the
\* result, whatever values the base has for it.
C34_EmptyValueRecordsTheKeyOnly ==
    LET text == Consumed
        last == Len(text)
    IN  /\ (parser.pc = "lines" /\ last > 0 /\ text[last].eq /\ text[last].value = ""
              /\ text[last].key \notin {"pkgbase", "pkgname"}) =>
             IF IsSome(parser.st.current_pkg)
             THEN /\ text[last].key \in DOMAIN Unwrap(parser.st.current_pkg).properties
                  /\ "" \notin Range(Unwrap(parser.st.current_pkg).properties[text[last].key])
             ELSE IsSome(parser.st.current_base) =>
                  /\ text[last].key \in DOMAIN Unwrap(parser.st.current_base).properties
                  /\ "" \notin Range(Unwrap(parser.st.current_base).properties[text[last].key])
        /\ parser.pc = "done" =>
             \A n \in 1..Cardinality(ValidNames(text)) :
                LET i == NthName(text, n)
                    b == BaseOf(text, i)
                IN  /\ n <= Len(parser.result)
                    /\ \A k \in OwnKeys(text, i) :
                         OwnValues(text, i, k) = <<>> =>
                            /\ k \in DOMAIN parser.result[n].properties
                            /\ parser.result[n].properties[k] = <<>>
                    /\ \A k \in OwnKeys(text, b) \ OwnKeys(text, i) :
                         OwnValues(text, b, k) = <<>> =>
                            /\ k \in DOMAIN parser.result[n].properties
                            /\ parser.result[n].properties[k] = <<>>

\* the base has depends = a, the sub-package has `depends =`: the package
\* has the key depends with no value
C34_Witness ==
    /\ parser.pc = "done"
    /\ parser.text = <<KV("pkgbase", "foo"), KV("depends", "a"),
                       KV("pkgname", "bar"), KV("depends", "")>>
    /\ Len(parser.result) = 1
    /\ parser.result[1].properties = [k \in {"depends"} |-> <<>>]

(***************************************************************************)
(* database.rs: one open transaction, in which clear_index_with_tx and     *)
(* update_index_with_tx are called on a store that holds rows already.     *)
(* view is what the transaction sees, pre what it saw before its last      *)
(* call, log the calls made.                                               *)
(***************************************************************************)
MaxRecords == 2
MaxCalls == 3

\* a DatabasePackageDetails with these fields, the others empty
Details(branch, pkg_name, ver, depends, groups) ==
    [info |-> [branch |-> branch, commit_id |-> Commit2, pkg_name |-> pkg_name,
               pkg_desc |-> None, version |-> ver, url |-> None],
     groups |-> groups,
     depends |-> depends,
     make_depends |-> <<>>,
     opt_depends |-> <<>>,
     check_depends |-> <<>>,
     provides |-> <<>>,
     conflicts |-> <<>>,
     replaces |-> <<>>]

RecordInputs ==
    {Details("paru", "foo", "1.0-1", <<"a", "a">>, <<>>),        \* a value twice
     Details("paru", "foo", "2.0-1", <<"b">>, <<"g", "g">>),     \* the same key, other fields
     Details("paru", "bar", "1.0-1", <<"a", "b", "a">>, <<>>),
     Details("yay", "foo", "1.0-1", <<>>, <<>>)}

StoreInputs == {EmptyStore, IndexOf([b \in {"paru", "yay"} |-> Commit1])}

DbtxInit ==
    /\ \E store \in StoreInputs, branch \in {"paru", "zsh"},
          packages \in UNION {[1..n -> RecordInputs] : n \in 0..MaxRecords} :
         dbtx = [pc |-> "open", view |-> store, pre |-> store, log |-> <<>>,
                 packages |-> packages, branch |-> branch]
    /\ parser = IdleParser /\ pkg = IdlePkg /\ refs = IdleRefs /\ rpc = IdleRpc

\* self.db.update_index_with_tx(&mut tx, &packages)
TxUpsert ==
    /\ dbtx.pc = "open" /\ Len(dbtx.log) < MaxCalls
    /\ dbtx' = [dbtx EXCEPT !.pre = dbtx.view,
                            !.view = update_index_with_tx(dbtx.view, dbtx.packages),
                            !.log = Append(@, "upsert")]
    /\ UNCHANGED <<svars, fvars, rd, parser, pkg, refs, rpc>>

\* self.db.clear_index_with_tx(&mut tx, branch)
TxClear ==
    /\ dbtx.pc = "open" /\ Len(dbtx.log) < MaxCalls
    /\ dbtx' = [dbtx EXCEPT !.pre = dbtx.view,
                            !.view = clear_index_with_tx(dbtx.view, dbtx.branch),
                            !.log = Append(@, "clear")]
    /\ UNCHANGED <<svars, fvars, rd, parser, pkg, refs, rpc>>

NextStore ==
    \/ TxUpsert
    \/ TxClear

InitStore == DbtxInit /\ SyncIdle /\ FetchIdle /\ ReaderIdle
SpecStore == InitStore /\ [][NextStore]_vars

(***************************************************************************)
(* Claims about the store operations.                                      *)
(***************************************************************************)
\* the last calls of the transaction are these
LastCallsAre(calls) ==
    /\ Len(dbtx.log) >= Len(calls)
    /\ SubSeq(dbtx.log, Len(dbtx.log) - Len(calls) + 1, Len(dbtx.log)) = calls

SameKey(r, q) == r.branch = q.branch /\ r.pkg_name = q.pkg_name

\* the attribute rows that the records of a list ask for in a table
RowsAskedFor(packages, t) ==
    UNION {{[branch |-> packages[i].info.branch,
             pkg_name |-> packages[i].info.pkg_name,
             value |-> v] : v \in Range(AttrItems(packages[i], t))} : i \in 1..Len(packages)}

\* C35: a second update_index_with_tx with the same records changes nothing;
\* after the call pkg_info holds, for the key of every record, one row, that
\* of the last record with the key, whatever row the key had, and the rows
\* of other keys as before; every attribute table holds its rows of before
\* and one row per value asked for, however often the value is repeated;
\* the commit pointers are untouched.
C35_UpsertIsIdempotent ==
    /\ LastCallsAre(<<"upsert", "upsert">>) => dbtx.view = dbtx.pre
    /\ LastCallsAre(<<"upsert">>) =>
         LET ps == dbtx.packages
         IN  /\ \A i \in 1..Len(ps) :
                  {r \in dbtx.view.pkg_info : SameKey(r, ps[i].info)} =
                     {ps[CHOOSE j \in i..Len(ps) :
                            /\ SameKey(ps[j].info, ps[i].info)
                            /\ \A k \in (j + 1)..Len(ps) : ~SameKey(ps[k].info, ps[i].info)].info}
             /\ {r \in dbtx.view.pkg_info : \A i \in 1..Len(ps) : ~SameKey(r, ps[i].info)} =
                {r \in dbtx.pre.pkg_info : \A i \in 1..Len(ps) : ~SameKey(r, ps[i].info)}
             /\ \A t \in AttrTableSet :
                  dbtx.view.attrs[t] = dbtx.pre.attrs[t] \cup RowsAskedFor(ps, t)
             /\ dbtx.view.branch_commits = dbtx.pre.branch_commits

\* (paru, foo) had a row; two records with that key and depends a, a and b
\* were upserted twice: the row is that of the second record, and a is
\* stored once
C35_Witness ==
    /\ LastCallsAre(<<"upsert", "upsert">>)
    /\ dbtx.packages = <<Details("paru", "foo", "1.0-1", <<"a", "a">>, <<>>),
                         Details("paru", "foo", "2.0-1", <<"b">>, <<"g", "g">>)>>
    /\ \E r \in dbtx.view.pkg_info : r.branch = "yay"
    /\ {r.version : r \in {q \in dbtx.view.pkg_info : q.branch = "paru" /\ q.pkg_name = "foo"}}
          = {"2.0-1"}
    /\ Cardinality({r \in dbtx.view.attrs["pkg_depends"] :
                       r.branch = "paru" /\ r.pkg_name = "foo" /\ r.value = "a"}) = 1

\* C36: after clear_index_with_tx(branch) pkg_info and each of the eight
\* attribute tables hold no row of the branch and exactly their rows of
\* before for every other branch, and branch_commits is as before.
C36_ClearDeletesOneBranchOnly ==
    LastCallsAre(<<"clear">>) =>
       /\ Len(AttrTables) = 8 /\ Cardinality(AttrTableSet) = 8
       /\ dbtx.view.pkg_info = {r \in dbtx.pre.pkg_info : r.branch # dbtx.branch}
       /\ \A r \in dbtx.view.pkg_info : r.branch # dbtx.branch
       /\ \A t \in AttrTableSet :
            /\ dbtx.view.attrs[t] = {r \in dbtx.pre.attrs[t] : r.branch # dbtx.branch}
            /\ \A r \in dbtx.view.attrs[t] : r.branch # dbtx.branch
       /\ dbtx.view.branch_commits = dbtx.pre.branch_commits

\* paru and yay had rows in pkg_info and pkg_depends and a commit pointer
\* each; paru was cleared: the rows of yay and both pointers are there
C36_Witness ==
    /\ LastCallsAre(<<"clear">>)
    /\ dbtx.branch = "paru"
    /\ \E r \in dbtx.pre.pkg_info : r.branch = "paru"
    /\ \E r \in dbtx.pre.attrs["pkg_depends"] : r.branch = "paru"
    /\ \E r \in dbtx.view.pkg_info : r.branch = "yay"
    /\ \E r \in dbtx.view.attrs["pkg_depends"] : r.branch = "yay"
    /\ DOMAIN dbtx.view.branch_commits = {"paru", "yay"}

(***************************************************************************)
(* rpc_server.rs: one request to the API server.                           *)
(*                                                                         *)
(* A response is [status, content_type, location, body]; a handler that    *)
(* returns Err(status) gives a response with that status and no body.  A   *)
(* body is the sequence of the pieces of its text; a JSON object is a      *)
(* piece of its own, written as a record.                                  *)
(***************************************************************************)
Digits == <<"0", "1", "2", "3", "4", "5", "6", "7", "8", "9">>

\* v.parse::<u32>().ok(), for strings of one character
parse_u32(v) ==
    IF \E i \in 1..Len(Digits) : Digits[i] = v
    THEN Some((CHOOSE i \in 1..Len(Digits) : Digits[i] = v) - 1)
    ELSE None

\* SearchType::from_str
SearchType_from_str(str) ==
    IF str \in {"name", "name-desc", "depends", "makedepends", "optdepends", "checkdepends"}
    THEN Some(str) ELSE None

StatusResponse(status) ==
    [status |-> status, content_type |-> "", location |-> <<>>, body |-> <<>>]

error_response(message, ver) ==
    [error |-> Some(message), result_count |-> 0, results |-> <<>>,
     response_type |-> "error", version |-> ver]

\* serde_json::to_string of an RpcResponse: error is left out when None,
\* result_count is written resultcount and response_type type
to_string(data) ==
    IF IsSome(data.error)
    THEN [error |-> Unwrap(data.error), resultcount |-> data.result_count,
          results |-> data.results, type |-> data.response_type, version |-> data.version]
    ELSE [resultcount |-> data.result_count,
          results |-> data.results, type |-> data.response_type, version |-> data.version]

\* faulty variant: an error object is answered with the status 400
create_response_bad_request(data, callback) ==
    [status |-> IF IsSome(data.error) THEN "BAD_REQUEST" ELSE "OK",
     content_type |-> IF IsSome(callback) THEN "application/javascript" ELSE "application/json",
     location |-> <<>>,
     body |-> IF IsSome(callback)
              THEN <<Unwrap(callback), "(", to_string(data), ");">>
              ELSE <<to_string(data)>>]

create_response(data, callback) ==
    IF IsSome(callback)
    THEN [status |-> "OK", content_type |-> "application/javascript", location |-> <<>>,
          body |-> <<Unwrap(callback), "(", to_string(data), ");">>]
    ELSE [status |-> "OK", content_type |-> "application/json", location |-> <<>>,
          body |-> <<to_string(data)>>]

\* format!("/cgit/aur.git/snapshot/{}.tar.gz", row.branch) and the other
\* fields taken from a row
RpcPackage(row) ==
    [Name |-> row.pkg_name, PackageBase |-> row.branch, Version |-> row.version,
     URLPath |-> <<"/cgit/aur.git/snapshot/", row.branch, ".tar.gz">>]

\* the results of a query that returned these rows
QueryResponse(rows, response_type) ==
    [error |-> None, result_count |-> Len(rows),
     results |-> [i \in 1..Len(rows) |-> RpcPackage(rows[i])],
     response_type |-> response_type, version |-> Some(5)]

\* db_result is what the query returns: [ok |-> TRUE, rows] or [ok |-> FALSE]
handle_search(db_result, search_by, keyword, callback) ==
    IF keyword = ""
    THEN create_response(error_response("Query arg too small.", Some(5)), callback)
    ELSE IF ~IsSome(SearchType_from_str(unwrap_or(search_by, "name-desc")))
    THEN create_response(error_response("Incorrect by field specified.", Some(5)), callback)
    ELSE IF db_result.ok
    THEN create_response(QueryResponse(db_result.rows, "search"), callback)
    ELSE StatusResponse("INTERNAL_SERVER_ERROR")

handle_info(db_result, args, callback) ==
    IF args = <<>>
    THEN create_response(error_response("No request type/data specified.", Some(5)), callback)
    ELSE IF db_result.ok
    THEN create_response(QueryResponse(db_result.rows, "multiinfo"), callback)
    ELSE StatusResponse("INTERNAL_SERVER_ERROR")

handle_rpc_request(ver, request_type, search_by, args, callback, db_result) ==
    IF ~IsSome(ver)
    THEN create_response(error_response("Please specify an API version.", None), callback)
    ELSE IF Unwrap(ver) # "5"
    THEN create_response(error_response("Invalid version specified.", parse_u32(Unwrap(ver))),
                         callback)
    ELSE IF ~IsSome(request_type)
    THEN create_response(error_response("No request type/data specified.", Some(5)), callback)
    ELSE IF Unwrap(request_type) = "search"
    THEN handle_search(db_result, search_by,
                       IF args = <<>> THEN "" ELSE Head(args), callback)
    ELSE IF Unwrap(request_type) = "info"
    THEN handle_info(db_result, args, callback)
    ELSE create_response(error_response("Incorrect request type specified.", Some(5)), callback)

\* str::strip_suffix on a name given by its pieces
strip_suffix(name, suffix) ==
    IF name # <<>> /\ name[Len(name)] = suffix
    THEN Some(SubSeq(name, 1, Len(name) - 1)) ELSE None

\* state.db.get_branch_commit_id(branch_name).await: the query may fail
LookupCommit(store, branch_name, db_ok) ==
    IF db_ok THEN [ok |-> TRUE, value |-> get_branch_commit_id(store, Join(branch_name))]
    ELSE [ok |-> FALSE, value |-> None]

handle_snapshot(store, snapshot_name, db_ok) ==
    LET branch_name == strip_suffix(snapshot_name, ".tar.gz")
        found == LookupCommit(store, Unwrap(branch_name), db_ok)
    IN  IF ~IsSome(branch_name) THEN StatusResponse("NOT_FOUND")
        ELSE IF ~found.ok THEN StatusResponse("INTERNAL_SERVER_ERROR")
        ELSE IF ~IsSome(found.value) THEN StatusResponse("NOT_FOUND")
        ELSE [status |-> "TEMPORARY_REDIRECT", content_type |-> "",
              location |-> <<"https://github.com/archlinux/aur/archive/",
                             Unwrap(found.value), ".tar.gz">>,
              body |-> <<>>]

AdvertisementHead == "001e# service=git-upload-pack\n000000e1"
AdvertisementCaps == " HEAD\\0multi_ack thin-pack side-band side-band-64k ofs-delta no-progress include-tag multi_ack_detailed no-done symref=HEAD:refs/heads/master object-format=sha1 agent=git/aur-mirror\n003f"
AdvertisementTail == " refs/heads/master\n0000"

\* faulty variant: the refs of an unknown branch are advertised with an
\* object id of zeros
handle_git_info_refs_zero_id(store, branch, params, db_ok) ==
    LET branch_name == unwrap_or(strip_suffix(branch, ".git"), branch)
        found == LookupCommit(store, branch_name, db_ok)
        commit_id == unwrap_or(found.value, "0000000000000000000000000000000000000000")
    IN  IF "service" \notin DOMAIN params
        THEN [status |-> "FORBIDDEN", content_type |-> "", location |-> <<>>,
              body |-> <<"Please upgrade your git client.">>]
        ELSE IF params["service"] # "git-upload-pack"
        THEN [status |-> "FORBIDDEN", content_type |-> "", location |-> <<>>,
              body |-> <<"Unsupported service">>]
        ELSE IF ~found.ok THEN StatusResponse("INTERNAL_SERVER_ERROR")
        ELSE [status |-> "OK",
              content_type |-> "application/x-git-upload-pack-advertisement",
              location |-> <<>>,
              body |-> <<AdvertisementHead, commit_id,
                         AdvertisementCaps, commit_id, AdvertisementTail>>]

handle_git_info_refs(store, branch, params, db_ok) ==
    LET branch_name == unwrap_or(strip_suffix(branch, ".git"), branch)
        found == LookupCommit(store, branch_name, db_ok)
    IN  IF "service" \notin DOMAIN params
        THEN [status |-> "FORBIDDEN", content_type |-> "", location |-> <<>>,
              body |-> <<"Please upgrade your git client.">>]
        ELSE IF params["service"] # "git-upload-pack"
        THEN [status |-> "FORBIDDEN", content_type |-> "", location |-> <<>>,
              body |-> <<"Unsupported service">>]
        ELSE IF ~found.ok THEN StatusResponse("INTERNAL_SERVER_ERROR")
        ELSE IF ~IsSome(found.value) THEN StatusResponse("NOT_FOUND")
        ELSE [status |-> "OK",
              content_type |-> "application/x-git-upload-pack-advertisement",
              location |-> <<>>,
              body |-> <<AdvertisementHead, Unwrap(found.value),
                         AdvertisementCaps, Unwrap(found.value), AdvertisementTail>>]

\* the request sent upstream: every header but Host and Authorization, the
\* token as basic auth, the body of the client
UpstreamRequest(headers, github_token, body) ==
    [url |-> "https://github.com/archlinux/aur.git/git-upload-pack",
     headers |-> headers \ {"host", "authorization"},
     basic_auth |-> github_token,
     body |-> body]

\* sent is what the send gives: [ok |-> TRUE, status, body] or
\* [ok |-> FALSE].  The result is the response and the requests sent upstream.
handle_git_upload_pack_post(store, branch, headers, body, github_token, db_ok, sent) ==
    LET branch_name == unwrap_or(strip_suffix(branch, ".git"), branch)
        found == LookupCommit(store, branch_name, db_ok)
    IN  IF ~found.ok
        THEN [resp |-> StatusResponse("INTERNAL_SERVER_ERROR"), forwarded |-> <<>>]
        ELSE IF ~IsSome(found.value)
        THEN [resp |-> StatusResponse("NOT_FOUND"), forwarded |-> <<>>]
        ELSE [resp |-> IF sent.ok
                       THEN [status |-> sent.status, content_type |-> "",
                             location |-> <<>>, body |-> sent.body]
                       ELSE StatusResponse("INTERNAL_SERVER_ERROR"),
              forwarded |-> <<UpstreamRequest(headers, github_token, body)>>]

(***************************************************************************)
(* The requests, the stores and the outcomes of the queries tried.         *)
(***************************************************************************)
RpcStores ==
    {EmptyStore,
     IndexOf([b \in {"paru"} |-> Commit1]),
     IndexOf([b \in {"paru", "yay"} |-> IF b = "paru" THEN Commit1 ELSE Commit2])}

RpcParams ==
    [v : {None, Some("5"), Some("4"), Some("x")},
     type : {None, Some("search"), Some("info"), Some("bogus")},
     by : {None, Some("name"), Some("bogus")},
     arg : {None, Some(""), Some("yay")},
     args : {<<>>, <<"paru">>},
     callback : {None, Some("cb")}]

RequestedNames == {<<"paru">>, <<"yay">>, <<"zsh">>}

Requests ==
    {[route |-> "GET /rpc", query |-> q] : q \in RpcParams}
    \cup {[route |-> "POST /rpc", form |-> q] : q \in RpcParams}
    \cup {[route |-> "GET /cgit/aur.git/snapshot/{snapshot_name}", snapshot_name |-> n \o x] :
            n \in RequestedNames, x \in {<<>>, <<".tar.gz">>, <<".git">>}}
    \cup {[route |-> "GET /{branch}/info/refs", branch |-> n \o x, params |-> q] :
            n \in RequestedNames, x \in {<<>>, <<".git">>},
            q \in {<<>>} \cup {[k \in {"service"} |-> w] :
                                 w \in {"git-upload-pack", "git-receive-pack"}}}
    \cup {[route |-> "POST /{branch}/git-upload-pack", branch |-> n \o x,
           headers |-> h, body |-> <<"0032want ">>, github_token |-> t] :
            n \in RequestedNames, x \in {<<>>, <<".git">>},
            h \in {{"host", "content-type"}, {"authorization", "content-type"}},
            t \in {None, Some("token")}}

\* what search_packages or get_package_details may return
DbResults ==
    {[ok |-> FALSE, rows |-> <<>>],
     [ok |-> TRUE, rows |-> <<>>],
     [ok |-> TRUE, rows |-> <<[pkg_name |-> "yay", branch |-> "yay", version |-> "12.3.5-1"]>>]}

\* what the upstream server may answer to a forwarded request
UpstreamResults ==
    {[ok |-> FALSE, status |-> "", body |-> <<>>],
     [ok |-> TRUE, status |-> "OK", body |-> <<"0008NAK\n">>]}

RpcInit ==
    /\ \E store \in RpcStores, req \in Requests :
         rpc = [pc |-> "request", store |-> store, req |-> req, resp |-> <<>>,
                forwarded |-> <<>>, db_ok |-> TRUE]
    /\ parser = IdleParser /\ pkg = IdlePkg /\ refs = IdleRefs /\ dbtx = IdleDbtx

\* db_ok records the outcome drawn for the queries of the request
Answer(resp, forwarded, db_ok) ==
    /\ rpc' = [rpc EXCEPT !.pc = "answered", !.resp = resp, !.forwarded = forwarded,
                          !.db_ok = db_ok]
    /\ UNCHANGED <<svars, fvars, rd, parser, pkg, refs, dbtx>>

\* all_args = args0.into_iter().chain(args1)
AllArgs(q) == q.arg \o q.args

HandleRpcGet ==
    /\ rpc.pc = "request" /\ rpc.req.route = "GET /rpc"
    /\ \E db_result \in DbResults :
         LET query == rpc.req.query
         IN  Answer(handle_rpc_request(query.v, query.type, query.by, AllArgs(query),
                                       query.callback, db_result), <<>>, db_result.ok)

HandleRpcPost ==
    /\ rpc.pc = "request" /\ rpc.req.route = "POST /rpc"
    /\ \E db_result \in DbResults :
         LET form == rpc.req.form
         IN  Answer(handle_rpc_request(form.v, form.type, form.by, AllArgs(form),
                                       None, db_result), <<>>, db_result.ok)

HandleSnapshot ==
    /\ rpc.pc = "request" /\ rpc.req.route = "GET /cgit/aur.git/snapshot/{snapshot_name}"
    /\ \E db_ok \in BOOLEAN :
         Answer(handle_snapshot(rpc.store, rpc.req.snapshot_name, db_ok), <<>>, db_ok)

HandleGitInfoRefs ==
    /\ rpc.pc = "request" /\ rpc.req.route = "GET /{branch}/info/refs"
    /\ \E db_ok \in BOOLEAN :
         Answer(handle_git_info_refs(rpc.store, rpc.req.branch, rpc.req.params, db_ok),
                <<>>, db_ok)

HandleGitUploadPackPost ==
    /\ rpc.pc = "request" /\ rpc.req.route = "POST /{branch}/git-upload-pack"
    /\ \E db_ok \in BOOLEAN, sent \in UpstreamResults :
         LET out == handle_git_upload_pack_post(rpc.store, rpc.req.branch, rpc.req.headers,
                                                rpc.req.body, rpc.req.github_token,
                                                db_ok, sent)
         IN  Answer(out.resp, out.forwarded, db_ok)

NextRpc ==
    \/ HandleRpcGet
    \/ HandleRpcPost
    \/ HandleSnapshot
    \/ HandleGitInfoRefs
    \/ HandleGitUploadPackPost

InitRpc == RpcInit /\ SyncIdle /\ FetchIdle /\ ReaderIdle
SpecRpc == InitRpc /\ [][NextRpc]_vars

(***************************************************************************)
(* Claims about the API server.                                            *)
(***************************************************************************)
\* the parameters handle_rpc_request was called with: POST passes no callback
RpcCall ==
    IF rpc.req.route = "GET /rpc" THEN rpc.req.query
    ELSE [rpc.req.form EXCEPT !.callback = None]

IsRpcRoute == rpc.req.route \in {"GET /rpc", "POST /rpc"}

KnownBy(by) ==
    unwrap_or(by, "name-desc") \in
        {"name", "name-desc", "depends", "makedepends", "optdepends", "checkdepends"}

\* the messages a request may be answered with, by the first check it
\* fails in the order version, request type, arguments; none for a request
\* that passes them all
ErrorMessages(q) ==
    IF ~IsSome(q.v) THEN {"Please specify an API version."}
    ELSE IF Unwrap(q.v) # "5" THEN {"Invalid version specified."}
    ELSE IF ~IsSome(q.type) THEN {"No request type/data specified."}
    ELSE IF Unwrap(q.type) \notin {"search", "info"} THEN {"Incorrect request type specified."}
    ELSE IF Unwrap(q.type) = "info"
    THEN (IF AllArgs(q) = <<>> THEN {"No request type/data specified."} ELSE {})
    ELSE (IF AllArgs(q) = <<>> \/ Head(AllArgs(q)) = "" THEN {"Query arg too small."} ELSE {})
         \cup (IF ~KnownBy(q.by) THEN {"Incorrect by field specified."} ELSE {})

IsErrorObject(json, messages) ==
    /\ DOMAIN json = {"error", "resultcount", "results", "type", "version"}
    /\ json.type = "error"
    /\ json.resultcount = 0
    /\ json.results = <<>>
    /\ json.error \in messages

\* C37 as stated: a request that fails one of the checks is answered with
\* an HTTP success whose body is a JSON object of type "error", with
\* resultcount 0 and the message of the first check failed.
C37_ErrorBodyIsAJsonObject ==
    (rpc.pc = "answered" /\ IsRpcRoute /\ ErrorMessages(RpcCall) # {}) =>
        /\ rpc.resp.status = "OK"
        /\ Len(rpc.resp.body) = 1
        /\ IsErrorObject(rpc.resp.body[1], ErrorMessages(RpcCall))

\* C37: a request with a missing version, a version other than 5, a missing
\* or unknown request type, an empty search argument, an unknown by field
\* or an empty info argument list is answered with an HTTP success, never
\* an error status.  Its body is a JSON object of type "error" with
\* resultcount 0 and the message of the first check failed, in the order
\* version, request type, arguments; when the request names a callback the
\* body is that object wrapped in a call of the callback, served as
\* application/javascript.
C37_MalformedRequestsGetAnErrorObject ==
    (rpc.pc = "answered" /\ IsRpcRoute /\ ErrorMessages(RpcCall) # {}) =>
        /\ rpc.resp.status = "OK"
        /\ IF IsSome(RpcCall.callback)
           THEN /\ rpc.resp.content_type = "application/javascript"
                /\ Len(rpc.resp.body) = 4
                /\ rpc.resp.body[1] = Unwrap(RpcCall.callback)
                /\ rpc.resp.body[2] = "("
                /\ IsErrorObject(rpc.resp.body[3], ErrorMessages(RpcCall))
                /\ rpc.resp.body[4] = ");"
           ELSE /\ rpc.resp.content_type = "application/json"
                /\ Len(rpc.resp.body) = 1
                /\ IsErrorObject(rpc.resp.body[1], ErrorMessages(RpcCall))

\* an info request of version 5 with no argument and a callback was
\* answered with the error object in a call of the callback
C37_Witness ==
    /\ rpc.pc = "answered" /\ rpc.req.route = "GET /rpc"
    /\ RpcCall.v = Some("5") /\ RpcCall.type = Some("info") /\ AllArgs(RpcCall) = <<>>
    /\ RpcCall.callback = Some("cb")
    /\ rpc.resp.body[3].error = "No request type/data specified."

SnapshotRoute == rpc.req.route = "GET /cgit/aur.git/snapshot/{snapshot_name}"
InfoRefsRoute == rpc.req.route = "GET /{branch}/info/refs"
UploadPackRoute == rpc.req.route = "POST /{branch}/git-upload-pack"

\* the branch a request names: the snapshot name without its .tar.gz, the
\* path segment without a .git; none for a snapshot name of another form
BranchAsked ==
    IF SnapshotRoute
    THEN (IF rpc.req.snapshot_name[Len(rpc.req.snapshot_name)] = ".tar.gz"
          THEN Some(rpc.req.snapshot_name[1]) ELSE None)
    ELSE Some(rpc.req.branch[1])

HasPointer == Unwrap(BranchAsked) \in DOMAIN rpc.store.branch_commits
StoredCommit == rpc.store.branch_commits[Unwrap(BranchAsked)]

ServiceRefused ==
    InfoRefsRoute /\ ("service" \notin DOMAIN rpc.req.params
                      \/ rpc.req.params["service"] # "git-upload-pack")

UsesStoredCommit ==
    /\ SnapshotRoute =>
         /\ rpc.resp.status = "TEMPORARY_REDIRECT"
         /\ rpc.resp.location = <<"https://github.com/archlinux/aur/archive/",
                                  StoredCommit, ".tar.gz">>
    /\ InfoRefsRoute =>
         /\ rpc.resp.status = "OK"
         /\ rpc.resp.body = <<AdvertisementHead, StoredCommit,
                              AdvertisementCaps, StoredCommit, AdvertisementTail>>

GitAnswered ==
    /\ rpc.pc = "answered"
    /\ SnapshotRoute \/ InfoRefsRoute \/ UploadPackRoute
    /\ IsSome(BranchAsked)

\* C38 as stated, read for the requests whose store queries succeed: a
\* request for a branch without a commit pointer is answered not-found by
\* each of the three routes, and nothing is forwarded; with a pointer, a
\* redirect and an advertisement carry the stored commit id.
C38_NoPointerIsNotFound ==
    (GitAnswered /\ rpc.db_ok) =>
        IF ~HasPointer
        THEN rpc.resp.status = "NOT_FOUND" /\ rpc.forwarded = <<>>
        ELSE (~UploadPackRoute /\ rpc.resp.status \in {"TEMPORARY_REDIRECT", "OK"})
                 => UsesStoredCommit

\* C38: for a branch without a commit pointer in the store the upload-pack
\* proxy forwards nothing upstream and no route answers with a success or a
\* redirect: the answer is not-found when the lookup succeeds, an internal
\* error when the lookup fails, and the ref advertisement answers forbidden
\* before any lookup when the service parameter is missing or is not
\* git-upload-pack.  When the pointer exists, the lookup succeeds and the
\* service is accepted, the redirect target and the advertised refs use
\* exactly the stored commit id of that branch.
C38_RoutesAreGatedOnThePointer ==
    GitAnswered =>
        IF ServiceRefused
        THEN rpc.resp.status = "FORBIDDEN" /\ rpc.forwarded = <<>>
        ELSE IF ~rpc.db_ok
        THEN rpc.resp.status = "INTERNAL_SERVER_ERROR" /\ rpc.forwarded = <<>>
        ELSE IF ~HasPointer
        THEN rpc.resp.status = "NOT_FOUND" /\ rpc.forwarded = <<>>
        ELSE UsesStoredCommit

\* the proxy was asked for a branch that a store with other branches does
\* not hold: it answered not-found and forwarded nothing
C38_Witness ==
    /\ GitAnswered /\ UploadPackRoute
    /\ rpc.req.branch = <<"zsh", ".git">>
    /\ DOMAIN rpc.store.branch_commits = {"paru", "yay"}
    /\ rpc.db_ok
    /\ rpc.resp.status = "NOT_FOUND" /\ rpc.forwarded = <<>>

\* the refs of yay were advertised with the commit id stored for yay, which
\* is not the one stored for paru
C38_StoredCommitAdvertised ==
    /\ GitAnswered /\ InfoRefsRoute
    /\ rpc.req.branch = <<"yay", ".git">>
    /\ rpc.resp.status = "OK"
    /\ rpc.resp.body[2] = Commit2 /\ rpc.resp.body[4] = Commit2
    /\ rpc.store.branch_commits["paru"] = Commit1

\* the proxy forwarded a request for a branch with a pointer
C38_Forwarded ==
    /\ GitAnswered /\ UploadPackRoute
    /\ HasPointer
    /\ Len(rpc.forwarded) = 1
    /\ rpc.forwarded[1].headers = {"content-type"}

====
